---------------------------- MODULE Spec2Model ----------------------------
(***************************************************************************)
(* A model of go-store: one storage contract (StoreIFace) implemented by   *)
(* four backends, Local (os), WebDav (gowebdav client), S3 (aws-sdk-go     *)
(* client) and Empty.                                                      *)
(*                                                                         *)
(* Bytes are sequences of one-character strings.  A path is a pair         *)
(* <<name, k>>: the string name followed by k copies of META_PREFIX, so    *)
(* that path + META_PREFIX is <<name, k + 1>>.  A metadata mapping is a    *)
(* function from keys to values (both byte sequences) together with the    *)
(* flag that tells a nil Go map from an empty one.                         *)
(***************************************************************************)
EXTENDS Integers, Sequences, FiniteSets, TLC

VARIABLES
    backend,    \* which implementation of StoreIFace the caller holds
    files,      \* the file tree Local and WebDav work on: path -> file
    objects,    \* the S3 bucket: key -> object
    last,       \* the last call of the contract: its arguments, the state
                \* before it, what it returned
    up,         \* the locals of one StreamToFile call taken step by step
    stream,     \* the io.Reader that call reads from
    mpu,        \* the multipart upload session the S3 service keeps
    ctxDone,    \* whether the call's context has been cancelled
    seen,       \* what a concurrent reader of the target last observed
    writers,    \* the locals of two calls that write the same path at once
    finished,   \* those of the two calls that returned, in order of return
    tree,       \* directories, files and keys by name: what each name holds
    dirCall,    \* the last MkdirAll, CreateFile or ClearDir made on the tree
    mv          \* the locals of one MoveFile call taken step by step

storeVars == <<backend, files, objects, last>>
uploadVars == <<up, stream, mpu, ctxDone, seen>>
writerVars == <<writers, finished>>
dirVars == <<tree, dirCall>>
moveVars == <<mv>>
vars == <<backend, files, objects, last, up, stream, mpu, ctxDone, seen,
          writers, finished, tree, dirCall, mv>>

---------------------------------------------------------------------------
(* Bounds of the model and the inputs the caller draws from.               *)

MaxLen == 3

\* the buffer of S3.StreamToFileWithContext (5 MiB in the program), scaled;
\* the S3 service's minimum size of a part that is not the last is the same
\* 5 MiB
ChunkSize == 2

\* the longest source streamed in
MaxSource == 4

\* the buffer of Local.StreamToFile (1 MiB in the program), scaled
LocalChunkSize == 1

Text == <<"h", "e", "l", "l", "o", "w">>

\* the contents a caller writes: the prefixes of Text up to MaxLen bytes
Contents == {SubSeq(Text, 1, j) : j \in 0..MaxLen}

Names == {"a", "b"}

CallerPaths == {<<n, 0>> : n \in Names}

Backends == {"local", "webdav", "s3", "empty"}

---------------------------------------------------------------------------
(* part_001: constants and the metadata codec.                             *)

EQ == "="
NL == "\n"

\* path + META_PREFIX
META_PREFIX(path) == <<path[1], path[2] + 1>>

\* the paths a caller may name when it is free to name a path that ends in
\* META_PREFIX as well
FramePaths == CallerPaths \cup {META_PREFIX(<<"a", 0>>)}

\* every file a call on one of those paths may touch
FilePaths == FramePaths \cup {META_PREFIX(p) : p \in FramePaths}

EmptyMap == [k \in {} |-> <<>>]

\* m[k] = v of a Go map
MapPut(m, k, v) == [x \in (DOMAIN m) \cup {k} |-> IF x = k THEN v ELSE m[x]]

\* for k, v := range over { m[k] = v }
MapMerge(m, over) ==
    [x \in (DOMAIN m) \cup (DOMAIN over) |->
        IF x \in DOMAIN over THEN over[x] ELSE m[x]]

NilMeta == [isNil |-> TRUE, map |-> EmptyMap]
Meta(m) == [isNil |-> FALSE, map |-> m]

\* a line written without the newline that ends it
MetaLineUnterminated(key, value) == key \o <<EQ>> \o value
\* fmt.Fprintf(b, "%s=%s\n", key, value)
MetaLine(key, value) == key \o <<EQ>> \o value \o <<NL>>

RECURSIVE MetaLines(_, _)
MetaLines(m, keys) ==
    IF keys = {} THEN {<<>>}
    ELSE UNION {{MetaLine(k, m[k]) \o rest : rest \in MetaLines(m, keys \ {k})}
                    : k \in keys}

\* meta2Bytes: Go ranges over a map in an unspecified order, so the result
\* is any one of the orderings of the lines
meta2Bytes(m) == MetaLines(m, DOMAIN m)

\* bytes.Split(b, sep) for a one-byte separator
RECURSIVE Split(_, _)
Split(b, sep) ==
    IF b = <<>> THEN << <<>> >>
    ELSE LET rest == Split(Tail(b), sep)
         IN  IF Head(b) = sep
             THEN << <<>> >> \o rest
             ELSE << <<Head(b)>> \o Head(rest) >> \o Tail(rest)

RECURSIVE MetaOfLines(_, _)
MetaOfLines(lines, m) ==
    IF lines = <<>> THEN m
    ELSE LET line == Head(lines)
             pair == Split(line, EQ)
         IN  MetaOfLines(Tail(lines),
                 IF Len(line) = 0 \/ Len(pair) # 2
                 THEN m
                 ELSE MapPut(m, pair[1], pair[2]))

\* bytes2Meta
bytes2Meta(b) == MetaOfLines(Split(b, NL), EmptyMap)

---------------------------------------------------------------------------
(* Values shared by the backends.                                          *)

NoFile == [exists |-> FALSE, data |-> <<>>]
File(data) == [exists |-> TRUE, data |-> data]

NoObject == [exists |-> FALSE, body |-> <<>>, meta |-> EmptyMap]
Object(body, m) == [exists |-> TRUE, body |-> body, meta |-> m]

\* what ([]byte, error) and (io.ReadCloser, error) results carry
NilBytes(err) == [isNil |-> TRUE, data |-> <<>>, err |-> err]
Bytes(data) == [isNil |-> FALSE, data |-> data, err |-> "nil"]

\* what (os.FileInfo, map[string]string, error) results carry
NoStat(err) == [hasInfo |-> FALSE, size |-> 0, meta |-> NilMeta, err |-> err]
StatOf(size, meta) == [hasInfo |-> TRUE, size |-> size, meta |-> meta, err |-> "nil"]

Min(x, y) == IF x < y THEN x ELSE y

NUL == "NUL"

RECURSIVE Zeros(_)
Zeros(n) == IF n <= 0 THEN <<>> ELSE <<NUL>> \o Zeros(n - 1)

---------------------------------------------------------------------------
(* local.go: the Local backend over the os package.                        *)

\* a write that opens with O_APPEND where os.WriteFile truncates
osWriteFileAppending(fs, path, data) ==
    [fs EXCEPT ![path] = File(fs[path].data \o data)]

\* os.WriteFile, and os.Create followed by the copy into the new file
osWriteFile(fs, path, data) == [fs EXCEPT ![path] = File(data)]

\* an open that creates the file when it is missing and keeps what it holds
osOpenKeeping(fs, path) == IF fs[path].exists THEN fs ELSE [fs EXCEPT ![path] = File(<<>>)]
\* os.Create: creates or truncates
osCreate(fs, path) == [fs EXCEPT ![path] = File(<<>>)]

\* os.Remove of an existing file
osRemove(fs, path) == [fs EXCEPT ![path] = NoFile]

\* os.Open + os.Create + io.Copy: dst is truncated first, then receives what
\* src holds at that moment
osCopy(fs, src, dst) ==
    LET truncated == osCreate(fs, dst)
    IN  osWriteFile(truncated, dst, truncated[src].data)

LocalIsExist(fs, filePath) ==
    fs[filePath].exists /\ Len(fs[filePath].data) > 0

\* a create that writes the primary as well when metadata is given
LocalCreateFileBoth(fs, path, file, meta) ==
    IF ~meta.isNil
    THEN {[files |-> osWriteFile(osWriteFile(fs, META_PREFIX(path), enc),
                                 path, file),
           err |-> "nil"]
            : enc \in meta2Bytes(meta.map)}
    ELSE {[files |-> osWriteFile(fs, path, file), err |-> "nil"]}

LocalCreateFile(fs, path, file, meta) ==
    IF ~meta.isNil
    THEN {[files |-> osWriteFile(fs, META_PREFIX(path), enc), err |-> "nil"]
            : enc \in meta2Bytes(meta.map)}
    ELSE {[files |-> osWriteFile(fs, path, file), err |-> "nil"]}

LocalCopyFile(fs, src, dst, meta) ==
    IF ~fs[src].exists
    THEN {[files |-> fs, err |-> "ENOENT"]}
    ELSE LET copied == osCopy(fs, src, dst)
             srcMeta == copied[META_PREFIX(src)]
         IN  IF srcMeta.exists /\ Len(srcMeta.data) > 0
             THEN {[files |-> osWriteFile(copied, META_PREFIX(dst), enc),
                    err |-> "nil"]
                     : enc \in meta2Bytes(MapMerge(bytes2Meta(srcMeta.data),
                                                   meta.map))}
             ELSE IF ~meta.isNil
             THEN {[files |-> osWriteFile(copied, META_PREFIX(dst), enc),
                    err |-> "nil"]
                     : enc \in meta2Bytes(meta.map)}
             ELSE {[files |-> copied, err |-> "nil"]}

LocalMoveFile(fs, src, dst) ==
    IF ~fs[src].exists
    THEN {[files |-> fs, err |-> "ErrFileNotFound"]}
    ELSE LET moved == osRemove(osCopy(fs, src, dst), src)
             metaFile == moved[META_PREFIX(src)]
         IN  IF metaFile.exists /\ Len(metaFile.data) > 0
             THEN {[files |-> osRemove(osCopy(moved, META_PREFIX(src),
                                              META_PREFIX(dst)),
                                       META_PREFIX(src)),
                    err |-> "nil"]}
             ELSE {[files |-> moved, err |-> "nil"]}

\* a remove that leaves the sidecar where it is
LocalRemoveFileKeepingMeta(fs, path) ==
    IF ~fs[path].exists
    THEN {[files |-> fs, err |-> "ErrFileNotFound"]}
    ELSE {[files |-> osRemove(fs, path), err |-> "nil"]}

LocalRemoveFile(fs, path) ==
    LET noMeta == osRemove(fs, META_PREFIX(path))
    IN  IF ~noMeta[path].exists
        THEN {[files |-> noMeta, err |-> "ErrFileNotFound"]}
        ELSE {[files |-> osRemove(noMeta, path), err |-> "nil"]}

LocalGetFile(fs, path) ==
    IF ~LocalIsExist(fs, path) THEN NilBytes("nil") ELSE Bytes(fs[path].data)

LocalStat(fs, path) ==
    IF ~fs[path].exists
    THEN NoStat("ErrFileNotFound")
    ELSE StatOf(Len(fs[path].data),
                Meta(bytes2Meta(LocalGetFile(fs, META_PREFIX(path)).data)))

\* make([]byte, length) then file.ReadAt(buf, offset): the buffer keeps its
\* full length, and the bytes ReadAt did not fill stay zero
ReadAtBuf(data, offset, length) ==
    LET got == IF offset >= Len(data) THEN 0
               ELSE Min(length, Len(data) - offset)
    IN  SubSeq(data, offset + 1, offset + got) \o Zeros(length - got)

\* a range read that takes zero, like a negative length, to mean "to the end"
LocalGetFilePartiallyToEndOnZero(fs, path, offset, length) ==
    IF ~LocalIsExist(fs, path)
    THEN NilBytes("nil")
    ELSE LET size == Len(fs[path].data)
             n == IF length <= 0 THEN size - offset ELSE length
         IN  IF n < 0
             THEN NilBytes("panic: makeslice: len out of range")
             ELSE Bytes(ReadAtBuf(fs[path].data, offset, n))

LocalGetFilePartially(fs, path, offset, length) ==
    IF ~LocalIsExist(fs, path)
    THEN NilBytes("nil")
    ELSE LET size == Len(fs[path].data)
             n == IF length < 0 THEN size - offset ELSE length
         IN  IF n < 0
             THEN NilBytes("panic: makeslice: len out of range")
             ELSE Bytes(ReadAtBuf(fs[path].data, offset, n))

---------------------------------------------------------------------------
(* An HTTP byte-range request (RFC 9110, which S3.GetFilePartially cites)  *)
(* as the S3 service and the WebDAV server answer it: a range whose first  *)
(* byte lies at or beyond the end of the representation is not satisfiable *)
(* and the bytes returned stop at the end of the representation.           *)

ClosedRange(first, lastByte) == [first |-> first, open |-> FALSE, last |-> lastByte]
OpenRange(first) == [first |-> first, open |-> TRUE, last |-> 0]

RangeGet(data, range) ==
    IF range.first >= Len(data)
    THEN NilBytes("InvalidRange")
    ELSE Bytes(SubSeq(data, range.first + 1,
                      IF range.open THEN Len(data)
                      ELSE Min(range.last + 1, Len(data))))

---------------------------------------------------------------------------
(* part_000, second file: the WebDav backend over the gowebdav client.     *)

\* client.Write
davWrite(fs, path, data) == [fs EXCEPT ![path] = File(data)]

\* client.Rename(src, dst, true): MOVE with Overwrite
davRename(fs, src, dst) ==
    IF ~fs[src].exists THEN [files |-> fs, err |-> "404"]
    ELSE IF src = dst THEN [files |-> fs, err |-> "403"]
    ELSE [files |-> [fs EXCEPT ![dst] = fs[src], ![src] = NoFile], err |-> "nil"]

\* client.Copy(src, dst, true): COPY with Overwrite
davCopy(fs, src, dst) ==
    IF ~fs[src].exists THEN [files |-> fs, err |-> "404"]
    ELSE IF src = dst THEN [files |-> fs, err |-> "403"]
    ELSE [files |-> [fs EXCEPT ![dst] = fs[src]], err |-> "nil"]

\* client.Remove: DELETE, which the client reports as success on 404 too
davRemove(fs, path) == [fs EXCEPT ![path] = NoFile]

WebDavIsExist(fs, filePath) ==
    fs[filePath].exists /\ Len(fs[filePath].data) > 0

WebDavCreateFile(fs, path, file, meta) ==
    IF ~meta.isNil
    THEN {[files |-> davWrite(davWrite(fs, META_PREFIX(path), enc), path, file),
           err |-> "nil"]
            : enc \in meta2Bytes(meta.map)}
    ELSE {[files |-> davWrite(fs, path, file), err |-> "nil"]}

WebDavGetFile(fs, path) ==
    IF ~WebDavIsExist(fs, path) THEN NilBytes("nil") ELSE Bytes(fs[path].data)

WebDavCopyFile(fs, src, dst, meta) ==
    IF WebDavIsExist(fs, META_PREFIX(src))
    THEN {davCopy(davWrite(fs, META_PREFIX(dst), enc), src, dst)
            : enc \in meta2Bytes(
                  MapMerge(bytes2Meta(WebDavGetFile(fs, META_PREFIX(src)).data),
                           meta.map))}
    ELSE {davCopy(fs, src, dst)}

WebDavMoveFile(fs, src, dst) ==
    {davRename(davRename(fs, META_PREFIX(src), META_PREFIX(dst)).files,
               src, dst)}

WebDavRemoveFile(fs, path) ==
    {[files |-> davRemove(davRemove(fs, META_PREFIX(path)), path), err |-> "nil"]}

WebDavStat(fs, path) ==
    IF ~fs[path].exists
    THEN NoStat("404")
    ELSE IF ~WebDavIsExist(fs, META_PREFIX(path))
    THEN StatOf(Len(fs[path].data), NilMeta)
    ELSE StatOf(Len(fs[path].data),
                Meta(bytes2Meta(fs[META_PREFIX(path)].data)))

\* client.ReadStreamRange(path, offset, length)
davReadStreamRange(fs, path, offset, length) ==
    IF ~fs[path].exists THEN NilBytes("404")
    ELSE RangeGet(fs[path].data,
                  IF length > 0 THEN ClosedRange(offset, offset + length - 1)
                  ELSE OpenRange(offset))

WebDavGetFilePartially(fs, path, offset, length) ==
    IF ~WebDavIsExist(fs, path)
    THEN NilBytes("nil")
    ELSE davReadStreamRange(fs, path, offset, length)

---------------------------------------------------------------------------
(* part_000, first file: the S3 backend over the aws-sdk-go client.        *)

\* client.PutObjectWithContext
s3PutObject(objs, key, body, m) == [objs EXCEPT ![key] = Object(body, m)]

\* client.DeleteObjectWithContext: succeeds whether or not the key exists
s3DeleteObject(objs, key) == [objs EXCEPT ![key] = NoObject]

\* client.GetObjectWithContext with a Range
s3GetObject(objs, key, range) ==
    IF ~objs[key].exists THEN NilBytes("NoSuchKey")
    ELSE RangeGet(objs[key].body, range)

S3IsExist(objs, filePath) == objs[filePath].exists

S3CreateFile(objs, path, file, meta) ==
    {[objects |-> s3PutObject(objs, path, file, meta.map), err |-> "nil"]}

S3CopyFile(objs, src, dst, meta) ==
    IF ~objs[src].exists
    THEN {[objects |-> objs, err |-> "NotFound"]}
    ELSE LET currentMeta == MapMerge(objs[src].meta, meta.map)
         IN  {[objects |-> [objs EXCEPT ![dst] = Object(objs[src].body, currentMeta)],
               err |-> "nil"]}

\* CopyObject with the default metadata directive (COPY), the two waits and
\* DeleteObject; S3 refuses a copy of an object onto itself that changes
\* nothing
S3MoveFile(objs, src, dst) ==
    IF ~objs[src].exists
    THEN {[objects |-> objs, err |-> "NoSuchKey"]}
    ELSE IF src = dst
    THEN {[objects |-> objs, err |-> "InvalidRequest"]}
    ELSE {[objects |-> s3DeleteObject([objs EXCEPT ![dst] = objs[src]], src),
           err |-> "nil"]}

S3RemoveFile(objs, path) ==
    {[objects |-> s3DeleteObject(objs, path), err |-> "nil"]}

\* a Range header whose last byte is taken as exclusive
S3RangeExclusiveEnd(offset, length) ==
    IF length > 0
    THEN ClosedRange(offset, offset + length)
    ELSE OpenRange(offset)

\* the Range header S3.FileReaderWithContext builds
S3Range(offset, length) ==
    IF length > 0
    THEN ClosedRange(offset, offset + length - 1)
    ELSE OpenRange(offset)

S3FileReader(objs, path, offset, length) ==
    s3GetObject(objs, path, S3Range(offset, length))

S3GetFile(objs, path) == S3FileReader(objs, path, 0, 0)

S3GetFilePartially(objs, path, offset, length) ==
    S3FileReader(objs, path, offset, length)

S3Stat(objs, path) ==
    IF ~objs[path].exists
    THEN NoStat("NotFound")
    ELSE StatOf(Len(objs[path].body), Meta(objs[path].meta))

---------------------------------------------------------------------------
(* The Empty backend (empty.go and the second file of local.go).           *)

EmptyIsExist(filePath) == FALSE
EmptyGetFile(path) == NilBytes("nil")
EmptyGetFilePartially(path, offset, length) == NilBytes("nil")
\* a null backend that answered a stat the way the real backends do
EmptyStatNotFound(path) == NoStat("ErrFileNotFound")
EmptyStat(path) == NoStat("nil")
EmptyStreamToFile(src, path) == "nil"
\* the (io.ReadCloser, error) pair, the reader held as the bytes it delivers
EmptyFileReader(path, offset, length) == NilBytes("nil")

---------------------------------------------------------------------------
(* StoreIFace: each method dispatched to the backend the caller holds.     *)

IsExist(b, fs, objs, path) ==
    CASE b = "local" -> LocalIsExist(fs, path)
      [] b = "webdav" -> WebDavIsExist(fs, path)
      [] b = "s3" -> S3IsExist(objs, path)
      [] OTHER -> EmptyIsExist(path)

GetFile(b, fs, objs, path) ==
    CASE b = "local" -> LocalGetFile(fs, path)
      [] b = "webdav" -> WebDavGetFile(fs, path)
      [] b = "s3" -> S3GetFile(objs, path)
      [] OTHER -> EmptyGetFile(path)

GetFilePartially(b, fs, objs, path, offset, length) ==
    CASE b = "local" -> LocalGetFilePartially(fs, path, offset, length)
      [] b = "webdav" -> WebDavGetFilePartially(fs, path, offset, length)
      [] b = "s3" -> S3GetFilePartially(objs, path, offset, length)
      [] OTHER -> EmptyGetFilePartially(path, offset, length)

Stat(b, fs, objs, path) ==
    CASE b = "local" -> LocalStat(fs, path)
      [] b = "webdav" -> WebDavStat(fs, path)
      [] b = "s3" -> S3Stat(objs, path)
      [] OTHER -> EmptyStat(path)

OnFiles(outs, objs) ==
    {[files |-> o.files, objects |-> objs, err |-> o.err] : o \in outs}

OnObjects(outs, fs) ==
    {[files |-> fs, objects |-> o.objects, err |-> o.err] : o \in outs}

Untouched(fs, objs) == {[files |-> fs, objects |-> objs, err |-> "nil"]}

CreateFile(b, fs, objs, path, file, meta) ==
    CASE b = "local" -> OnFiles(LocalCreateFile(fs, path, file, meta), objs)
      [] b = "webdav" -> OnFiles(WebDavCreateFile(fs, path, file, meta), objs)
      [] b = "s3" -> OnObjects(S3CreateFile(objs, path, file, meta), fs)
      [] OTHER -> Untouched(fs, objs)

CopyFile(b, fs, objs, src, dst, meta) ==
    CASE b = "local" -> OnFiles(LocalCopyFile(fs, src, dst, meta), objs)
      [] b = "webdav" -> OnFiles(WebDavCopyFile(fs, src, dst, meta), objs)
      [] b = "s3" -> OnObjects(S3CopyFile(objs, src, dst, meta), fs)
      [] OTHER -> Untouched(fs, objs)

MoveFile(b, fs, objs, src, dst) ==
    CASE b = "local" -> OnFiles(LocalMoveFile(fs, src, dst), objs)
      [] b = "webdav" -> OnFiles(WebDavMoveFile(fs, src, dst), objs)
      [] b = "s3" -> OnObjects(S3MoveFile(objs, src, dst), fs)
      [] OTHER -> Untouched(fs, objs)

RemoveFile(b, fs, objs, path) ==
    CASE b = "local" -> OnFiles(LocalRemoveFile(fs, path), objs)
      [] b = "webdav" -> OnFiles(WebDavRemoveFile(fs, path), objs)
      [] b = "s3" -> OnObjects(S3RemoveFile(objs, path), fs)
      [] OTHER -> Untouched(fs, objs)

---------------------------------------------------------------------------
(* The cancellable variants.  Local and WebDav test ctx.Done() once and    *)
(* then call the plain method; S3 hands ctx to its first SDK call, which   *)
(* is not sent when ctx is done; Empty never looks at ctx.                 *)

\* how a method is called: the plain method ("none"), or its WithContext
\* variant with a context that is still live or already done
CtxArgs == {"none", "live", "done"}

CancelError(b) == IF b = "s3" THEN "RequestCanceled" ELSE "context canceled"

Cancelled(b, fs, objs) ==
    {[files |-> fs, objects |-> objs, err |-> CancelError(b)]}

\* a variant that goes on to the plain method whatever ctx says
WithContextUnchecked(b, ctx, cancelled, call) == call

WithContext(b, ctx, cancelled, call) ==
    IF ctx = "done" /\ b # "empty" THEN cancelled ELSE call

---------------------------------------------------------------------------
(* part_000: S3.StreamToFileWithContext, one step per SDK call and per     *)
(* read of the stream, against the multipart upload API of the service.    *)

\* the integrity tag of a part: determined by the part's bytes
ETag(body) == body

NoSession == [state |-> "none", key |-> <<"a", 0>>, parts |-> EmptyMap]

\* the error an SDK call made with ctx returns, "nil" when it goes through
CallError(fault) ==
    IF ctxDone THEN "context canceled"
    ELSE IF fault THEN "transport" ELSE "nil"

\* a part counter that is never advanced
SamePartNumber(partNumber) == partNumber
\* partNumber++
NextPartNumber(partNumber) == partNumber + 1

\* &s3.CompletedPart{ETag: completedPart.ETag, PartNumber: aws.Int64(partNumber)}
CompletedPart(etag, partNumber) == [ETag |-> etag, PartNumber |-> partNumber]

\* a chunk sent as an object of its own instead of as a part of the session
UploadChunkByPut(session, objs, key, partNumber, body) ==
    [mpu |-> [session EXCEPT !.parts = MapPut(session.parts, partNumber, body)],
     objects |-> s3PutObject(objs, key, body, EmptyMap)]

\* client.UploadPartWithContext: the part is kept in the session, the bucket
\* is not touched
UploadChunk(session, objs, key, partNumber, body) ==
    [mpu |-> [session EXCEPT !.parts = MapPut(session.parts, partNumber, body)],
     objects |-> objs]

RECURSIVE ConcatParts(_, _)
ConcatParts(list, parts) ==
    IF list = <<>> THEN <<>>
    ELSE parts[Head(list).PartNumber] \o ConcatParts(Tail(list), parts)

\* what the service checks on CompleteMultipartUpload: at least one part,
\* part numbers ascending, every listed part uploaded under the listed tag,
\* and no part but the last below the minimum part size
CompleteAccepted(session, list) ==
    /\ session.state = "open"
    /\ list # <<>>
    /\ \A i \in 1..Len(list) :
        /\ list[i].PartNumber \in DOMAIN session.parts
        /\ list[i].ETag = ETag(session.parts[list[i].PartNumber])
        /\ i < Len(list) => list[i].PartNumber < list[i + 1].PartNumber
        /\ i < Len(list) => Len(session.parts[list[i].PartNumber]) >= ChunkSize

NoObservation ==
    [taken |-> FALSE, pc |-> "idle", session |-> "none", parts |-> 0,
     exist |-> FALSE,
     out |-> NilBytes("nil"), stat |-> NoStat("nil")]

NoStream == [all |-> <<>>, rest |-> <<>>]

IdleUpload ==
    [pc |-> "idle", path |-> <<"a", 0>>, pre |-> NoObject, partNumber |-> 1,
     completedParts |-> <<>>, buf |-> <<>>, err |-> "nil", ret |-> "nil",
     readErr |-> "nil", abortErr |-> "nil", aborts |-> 0, submitted |-> <<>>,
     chunks |-> <<>>]

\* no stream-in is under way
NoUpload ==
    /\ up = IdleUpload
    /\ stream = NoStream
    /\ mpu = NoSession
    /\ ctxDone = FALSE
    /\ seen = NoObservation

IdleWriter ==
    [kind |-> "none", pc |-> "done", src |-> <<>>, rest |-> <<>>, offset |-> 0,
     buf |-> <<>>, session |-> NoSession, completedParts |-> <<>>,
     partNumber |-> 1, ret |-> "nil"]

Writers == {1, 2}

\* no two calls write the same path at once
NoWriters ==
    /\ writers = [w \in Writers |-> IdleWriter]
    /\ finished = <<>>

---------------------------------------------------------------------------
(* Directories.  A name is the sequence of its characters, "/" separating  *)
(* the segments.  On Local and WebDav a name holds a directory or a file;  *)
(* in the bucket it holds an object, which is a marker when MkdirAll made  *)
(* it (an object with an empty body).                                      *)

SLASH == "/"

Keys == {<<"d">>, <<"d", SLASH, "x">>, <<"d", SLASH, "s">>,
         <<"d", SLASH, "s", SLASH, "y">>, <<"d", "2">>}

\* strings.HasPrefix(k, p)
HasPrefix(k, p) == Len(p) <= Len(k) /\ SubSeq(k, 1, Len(p)) = p

\* k names something below the directory p
Inside(p, k) == HasPrefix(k, p \o <<SLASH>>)

EmptyTree == [k \in Keys |-> "absent"]

NoDirCall ==
    [op |-> "none", ctx |-> "none", path |-> <<"d">>, fault |-> FALSE,
     err |-> "nil", pre |-> EmptyTree]

\* no directory call is under way
NoDirs ==
    /\ tree = EmptyTree
    /\ dirCall = NoDirCall

\* the locals of a MoveFile call: where it stands, its arguments, the steps it
\* has made with the error of each, what it returned, and the source as it
\* was when the call was made
IdleMove ==
    [pc |-> "idle", src |-> <<"a", 0>>, dst |-> <<"a", 0>>, steps |-> <<>>,
     ret |-> "nil", original |-> <<>>]

\* no MoveFile call is under way
NoMove == mv = IdleMove

---------------------------------------------------------------------------
(* The caller: one call of the contract at a time.                         *)

Owner == <<"o">>
Team == <<"t">>

BobMeta == MapPut(EmptyMap, Owner, <<"b">>)
BobTeamMeta == MapPut(BobMeta, Team, <<"x">>)
AliceMeta == MapPut(EmptyMap, Owner, <<"a">>)

\* the metadata arguments a caller passes: nil, an empty map, and maps whose
\* keys and values hold neither '=' nor a newline
MetaArgs == {NilMeta, Meta(EmptyMap), Meta(BobMeta), Meta(BobTeamMeta),
             Meta(AliceMeta)}

Offsets == 0..MaxLen
Lengths == (-1)..MaxLen

NoCall ==
    [op |-> "none", ctx |-> "none", path |-> <<"a", 0>>, dst |-> <<"a", 0>>,
     file |-> <<>>,
     meta |-> NilMeta, offset |-> 0, length |-> 0, err |-> "nil",
     out |-> NilBytes("nil"), stat |-> NoStat("nil"), exist |-> FALSE,
     pre |-> [files |-> files, objects |-> objects]]

StoreInit ==
    /\ backend \in Backends
    /\ files = [p \in FilePaths |-> NoFile]
    /\ objects = [p \in CallerPaths |-> NoObject]
    /\ last = [NoCall EXCEPT !.pre = [files |-> [p \in FilePaths |-> NoFile],
                                      objects |-> [p \in CallerPaths |-> NoObject]]]
    /\ NoUpload
    /\ NoWriters
    /\ NoDirs
    /\ NoMove

\* a call starts once the caller is done with the previous call's result
Idle == last.op = "none"

Mutate(outs, call) ==
    \E o \in outs :
        /\ files' = o.files
        /\ objects' = o.objects
        /\ last' = [call EXCEPT !.err = o.err]
        /\ UNCHANGED <<backend, uploadVars, writerVars, dirVars, moveVars>>

Observe(call) ==
    /\ last' = call
    /\ UNCHANGED <<backend, files, objects, uploadVars, writerVars, dirVars, moveVars>>

CallCreateFile ==
    /\ Idle
    /\ \E path \in CallerPaths, file \in Contents, meta \in MetaArgs,
          ctx \in CtxArgs :
        Mutate(WithContext(backend, ctx, Cancelled(backend, files, objects),
                   CreateFile(backend, files, objects, path, file, meta)),
               [NoCall EXCEPT !.op = "CreateFile", !.ctx = ctx, !.path = path,
                              !.file = file, !.meta = meta])

CallCopyFile ==
    /\ Idle
    /\ \E src \in CallerPaths, dst \in CallerPaths, meta \in MetaArgs,
          ctx \in CtxArgs :
        Mutate(WithContext(backend, ctx, Cancelled(backend, files, objects),
                   CopyFile(backend, files, objects, src, dst, meta)),
               [NoCall EXCEPT !.op = "CopyFile", !.ctx = ctx, !.path = src,
                              !.dst = dst, !.meta = meta])

CallMoveFile ==
    /\ Idle
    /\ \E src \in CallerPaths, dst \in CallerPaths, ctx \in CtxArgs :
        Mutate(WithContext(backend, ctx, Cancelled(backend, files, objects),
                   MoveFile(backend, files, objects, src, dst)),
               [NoCall EXCEPT !.op = "MoveFile", !.ctx = ctx, !.path = src,
                              !.dst = dst])

CallRemoveFile ==
    /\ Idle
    /\ \E path \in CallerPaths, ctx \in CtxArgs :
        Mutate(WithContext(backend, ctx, Cancelled(backend, files, objects),
                   RemoveFile(backend, files, objects, path)),
               [NoCall EXCEPT !.op = "RemoveFile", !.ctx = ctx, !.path = path])

CallIsExist ==
    /\ Idle
    /\ \E path \in CallerPaths :
        Observe([NoCall EXCEPT !.op = "IsExist", !.path = path,
                     !.exist = IsExist(backend, files, objects, path)])

CallGetFile ==
    /\ Idle
    /\ \E path \in CallerPaths, ctx \in CtxArgs :
        LET out == WithContext(backend, ctx, NilBytes(CancelError(backend)),
                       GetFile(backend, files, objects, path))
        IN  Observe([NoCall EXCEPT !.op = "GetFile", !.ctx = ctx, !.path = path,
                         !.out = out, !.err = out.err])

CallGetFilePartially ==
    /\ Idle
    /\ \E path \in CallerPaths, offset \in Offsets, length \in Lengths,
          ctx \in CtxArgs :
        LET out == WithContext(backend, ctx, NilBytes(CancelError(backend)),
                       GetFilePartially(backend, files, objects, path, offset,
                                        length))
        IN  Observe([NoCall EXCEPT !.op = "GetFilePartially", !.ctx = ctx,
                         !.path = path,
                         !.offset = offset, !.length = length,
                         !.out = out, !.err = out.err])

CallStat ==
    /\ Idle
    /\ \E path \in CallerPaths, ctx \in CtxArgs :
        LET st == WithContext(backend, ctx, NoStat(CancelError(backend)),
                      Stat(backend, files, objects, path))
        IN  Observe([NoCall EXCEPT !.op = "Stat", !.ctx = ctx, !.path = path,
                         !.stat = st, !.err = st.err])

\* the caller drops the result of the call it made
Forget ==
    /\ last.op # "none"
    /\ last' = NoCall
    /\ UNCHANGED <<backend, files, objects, uploadVars, writerVars, dirVars, moveVars>>

StoreNext ==
    \/ CallCreateFile
    \/ CallCopyFile
    \/ CallMoveFile
    \/ CallRemoveFile
    \/ CallIsExist
    \/ CallGetFile
    \/ CallGetFilePartially
    \/ CallStat
    \/ Forget

Spec == StoreInit /\ [][StoreNext]_vars

---------------------------------------------------------------------------
(* The steps of S3.StreamToFileWithContext and its environment.           *)

Sources == {SubSeq(Text, 1, n) : n \in 0..MaxSource}

\* the call is made with a source and a target that is absent or holds an
\* older object
UploadInit ==
    /\ backend = "s3"
    /\ files = [p \in FilePaths |-> NoFile]
    /\ \E path \in CallerPaths, old \in {NoObject, Object(<<"o", "l", "d">>, BobMeta)},
          src \in Sources :
        /\ objects = [p \in CallerPaths |-> IF p = path THEN old ELSE NoObject]
        /\ up = [IdleUpload EXCEPT !.pc = "start", !.path = path, !.pre = old]
        /\ stream = [all |-> src, rest |-> src]
        /\ last = [NoCall EXCEPT !.pre =
                     [files |-> [p \in FilePaths |-> NoFile],
                      objects |-> [p \in CallerPaths |->
                                     IF p = path THEN old ELSE NoObject]]]
    /\ mpu = NoSession
    /\ ctxDone = FALSE
    /\ seen = NoObservation
    /\ NoWriters
    /\ NoDirs
    /\ NoMove

\* resp, err := s.client.CreateMultipartUploadWithContext(...)
StreamCreateMultipartUpload ==
    /\ up.pc = "start"
    /\ \E fault \in BOOLEAN :
        IF CallError(fault) # "nil"
        THEN /\ up' = [up EXCEPT !.pc = "done", !.ret = CallError(fault)]
             /\ UNCHANGED mpu
        ELSE /\ up' = [up EXCEPT !.pc = "read"]
             /\ mpu' = [state |-> "open", key |-> up.path, parts |-> EmptyMap]
    /\ UNCHANGED <<storeVars, stream, ctxDone, seen, writerVars, dirVars, moveVars>>

\* n, err := stream.Read(buf) and the two tests that follow it; an io.Reader
\* may return fewer bytes than the buffer holds, no byte and no error, or
\* bytes together with io.EOF or with an error
StreamRead ==
    /\ up.pc = "read"
    /\ \E n \in 0..Min(ChunkSize, Len(stream.rest)),
          err \in {"nil", "EOF", "read error"} :
        /\ err = "EOF" => n = Len(stream.rest)
        /\ stream' = [stream EXCEPT !.rest = SubSeq(stream.rest, n + 1,
                                                    Len(stream.rest))]
        /\ up' = IF err = "read error"
                 THEN [up EXCEPT !.pc = "done", !.ret = err, !.readErr = err]
                 ELSE IF n = 0
                 THEN [up EXCEPT !.pc = "complete"]
                 ELSE [up EXCEPT !.pc = "upload",
                                 !.buf = SubSeq(stream.rest, 1, n)]
    /\ UNCHANGED <<storeVars, mpu, ctxDone, seen, writerVars, dirVars, moveVars>>

\* completedPart, err := s.client.UploadPartWithContext(...), then the append
\* to completedParts and partNumber++
StreamUploadPart ==
    /\ up.pc = "upload"
    /\ \E fault \in BOOLEAN :
        IF CallError(fault) # "nil"
        THEN /\ up' = [up EXCEPT !.pc = "abort", !.err = CallError(fault)]
             /\ UNCHANGED <<mpu, objects>>
        ELSE LET sent == UploadChunk(mpu, objects, up.path, up.partNumber, up.buf)
             IN  /\ mpu' = sent.mpu
                 /\ objects' = sent.objects
                 /\ up' = [up EXCEPT
                             !.pc = "read",
                             !.completedParts =
                                 Append(@, CompletedPart(ETag(up.buf),
                                                         up.partNumber)),
                             !.partNumber = NextPartNumber(@)]
    /\ UNCHANGED <<backend, files, last, stream, ctxDone, seen, writerVars, dirVars, moveVars>>

\* abortErr := s.abortMultipartUpload(ctx, resp), made with the ctx of the call
StreamAbort ==
    /\ up.pc = "abort"
    /\ \E fault \in BOOLEAN :
        IF CallError(fault) # "nil"
        THEN /\ up' = [up EXCEPT !.pc = "done", !.ret = CallError(fault),
                                 !.abortErr = CallError(fault),
                                 !.aborts = @ + 1]
             /\ UNCHANGED mpu
        ELSE /\ up' = [up EXCEPT !.pc = "done", !.ret = up.err,
                                 !.aborts = @ + 1]
             /\ mpu' = [mpu EXCEPT !.state = "aborted", !.parts = EmptyMap]
    /\ UNCHANGED <<storeVars, stream, ctxDone, seen, writerVars, dirVars, moveVars>>

\* _, err = s.completeMultipartUpload(ctx, resp, completedParts); return err
StreamComplete ==
    /\ up.pc = "complete"
    /\ \E fault \in BOOLEAN :
        IF CallError(fault) # "nil"
        THEN /\ up' = [up EXCEPT !.pc = "done", !.ret = CallError(fault)]
             /\ UNCHANGED <<mpu, objects>>
        ELSE IF ~CompleteAccepted(mpu, up.completedParts)
        THEN /\ up' = [up EXCEPT !.pc = "done", !.ret = "rejected",
                                 !.submitted = up.completedParts]
             /\ UNCHANGED <<mpu, objects>>
        ELSE /\ up' = [up EXCEPT !.pc = "done", !.ret = "nil",
                                 !.submitted = up.completedParts]
             /\ objects' = s3PutObject(objects, up.path,
                                       ConcatParts(up.completedParts, mpu.parts),
                                       EmptyMap)
             /\ mpu' = [mpu EXCEPT !.state = "completed"]
    /\ UNCHANGED <<backend, files, last, stream, ctxDone, seen, writerVars, dirVars, moveVars>>

\* the cancellation signal fires while the call runs
CtxCancel ==
    /\ up.pc \notin {"idle", "done"}
    /\ ~ctxDone
    /\ ctxDone' = TRUE
    /\ UNCHANGED <<storeVars, up, stream, mpu, seen, writerVars, dirVars, moveVars>>

\* another caller runs IsExist, GetFile and Stat on the target
ReaderObserve ==
    /\ up.pc # "idle"
    /\ seen' = [taken |-> TRUE, pc |-> up.pc, session |-> mpu.state,
                parts |-> Cardinality(DOMAIN mpu.parts),
                exist |-> S3IsExist(objects, up.path),
                out |-> S3GetFile(objects, up.path),
                stat |-> S3Stat(objects, up.path)]
    /\ UNCHANGED <<storeVars, up, stream, mpu, ctxDone, writerVars, dirVars, moveVars>>

UploadNext ==
    \/ StreamCreateMultipartUpload
    \/ StreamRead
    \/ StreamUploadPart
    \/ StreamAbort
    \/ StreamComplete
    \/ CtxCancel
    \/ ReaderObserve

SpecUpload == UploadInit /\ [][UploadNext]_vars

---------------------------------------------------------------------------
(* Two calls that write the same path at once: Local.StreamToFile or       *)
(* Local.CreateFile on one file, S3.StreamToFile or S3.CreateFile on one   *)
(* key.  Each call is a process of its own; the file and the bucket are    *)
(* what they share.                                                        *)

Text2 == <<"W", "O", "R", "L", "D", "S">>

SharedPath == <<"a", 0>>

\* file.Write(buf[:n]) on a descriptor whose offset is offset: the bytes land
\* at that offset, a gap below it reads as zeros, bytes beyond stay
osWriteAt(fs, path, offset, buf) ==
    LET data == fs[path].data
        head == IF offset <= Len(data) THEN SubSeq(data, 1, offset)
                ELSE data \o Zeros(offset - Len(data))
        tail == SubSeq(data, offset + Len(buf) + 1, Len(data))
    IN  [fs EXCEPT ![path] = File(head \o buf \o tail)]

BufSize == IF backend = "local" THEN LocalChunkSize ELSE ChunkSize

\* each writer streams or creates its own bytes; the sources are readers that
\* fill the buffer and then report io.EOF, as bytes.Reader and os.File do
WritersInit ==
    /\ backend \in {"local", "s3"}
    /\ \E old \in {<<>>, <<"o", "l", "d">>} :
        /\ files = [p \in FilePaths |->
                      IF p = SharedPath /\ old # <<>> /\ backend = "local"
                      THEN File(old) ELSE NoFile]
        /\ objects = [p \in CallerPaths |->
                        IF p = SharedPath /\ old # <<>> /\ backend = "s3"
                        THEN Object(old, EmptyMap) ELSE NoObject]
    /\ last = [NoCall EXCEPT !.pre = [files |-> files, objects |-> objects]]
    /\ NoUpload
    /\ \E n1 \in 1..MaxSource, n2 \in 1..MaxSource, k2 \in {"stream", "create"} :
        writers = [w \in Writers |->
                     IF w = 1
                     THEN [IdleWriter EXCEPT !.kind = "stream", !.pc = "open",
                                             !.src = SubSeq(Text, 1, n1),
                                             !.rest = SubSeq(Text, 1, n1)]
                     ELSE [IdleWriter EXCEPT !.kind = k2, !.pc = "open",
                                             !.src = SubSeq(Text2, 1, n2),
                                             !.rest = SubSeq(Text2, 1, n2)]]
    /\ finished = <<>>
    /\ NoDirs
    /\ NoMove

WriterStep(w, next) ==
    /\ writers' = [writers EXCEPT ![w] = next]
    /\ finished' = IF next.pc = "done" THEN Append(finished, w) ELSE finished

\* os.Create / the open of os.WriteFile (both truncate);
\* CreateMultipartUpload; PutObject
WriterOpen ==
    \E w \in Writers :
        LET me == writers[w] IN
        /\ me.pc = "open"
        /\ IF backend = "local"
           THEN /\ files' = osCreate(files, SharedPath)
                /\ WriterStep(w, IF me.kind = "stream"
                                 THEN [me EXCEPT !.pc = "read"]
                                 ELSE [me EXCEPT !.pc = "write", !.buf = me.src,
                                                 !.rest = <<>>])
                /\ UNCHANGED objects
           ELSE IF me.kind = "stream"
           THEN /\ WriterStep(w, [me EXCEPT !.pc = "read",
                                     !.session = [state |-> "open",
                                                  key |-> SharedPath,
                                                  parts |-> EmptyMap]])
                /\ UNCHANGED <<files, objects>>
           ELSE /\ objects' = s3PutObject(objects, SharedPath, me.src, EmptyMap)
                /\ WriterStep(w, [me EXCEPT !.pc = "done", !.rest = <<>>])
                /\ UNCHANGED files
        /\ UNCHANGED <<backend, last, uploadVars, dirVars, moveVars>>

\* n, err := stream.Read(buf) and the tests that follow it
WriterRead ==
    \E w \in Writers :
        LET me == writers[w]
            n == Min(BufSize, Len(me.rest))
        IN
        /\ me.pc = "read"
        /\ WriterStep(w,
             IF n = 0
             THEN [me EXCEPT !.pc = IF backend = "local" THEN "done"
                                    ELSE "complete"]
             ELSE [me EXCEPT !.pc = IF backend = "local" THEN "write"
                                    ELSE "upload",
                             !.buf = SubSeq(me.rest, 1, n),
                             !.rest = SubSeq(me.rest, n + 1, Len(me.rest))])
        /\ UNCHANGED <<storeVars, uploadVars, dirVars, moveVars>>

\* _, err = file.Write(buf[:n]); for os.WriteFile the one write and the return
WriterWrite ==
    \E w \in Writers :
        LET me == writers[w] IN
        /\ me.pc = "write"
        /\ files' = osWriteAt(files, SharedPath, me.offset, me.buf)
        /\ WriterStep(w, [me EXCEPT !.offset = @ + Len(me.buf),
                                    !.pc = IF me.kind = "stream" THEN "read"
                                           ELSE "done"])
        /\ UNCHANGED <<backend, objects, last, uploadVars, dirVars, moveVars>>

\* UploadPartWithContext into the writer's own session
WriterUploadPart ==
    \E w \in Writers :
        LET me == writers[w]
            sent == UploadChunk(me.session, objects, SharedPath, me.partNumber,
                                me.buf)
        IN
        /\ me.pc = "upload"
        /\ objects' = sent.objects
        /\ WriterStep(w, [me EXCEPT
                            !.pc = "read",
                            !.session = sent.mpu,
                            !.completedParts =
                                Append(@, [ETag |-> ETag(me.buf),
                                           PartNumber |-> me.partNumber]),
                            !.partNumber = @ + 1])
        /\ UNCHANGED <<backend, files, last, uploadVars, dirVars, moveVars>>

\* completeMultipartUpload of the writer's own session
WriterComplete ==
    \E w \in Writers :
        LET me == writers[w] IN
        /\ me.pc = "complete"
        /\ IF CompleteAccepted(me.session, me.completedParts)
           THEN /\ objects' = s3PutObject(objects, SharedPath,
                                          ConcatParts(me.completedParts,
                                                      me.session.parts),
                                          EmptyMap)
                /\ WriterStep(w, [me EXCEPT !.pc = "done",
                                            !.session.state = "completed"])
           ELSE /\ WriterStep(w, [me EXCEPT !.pc = "done", !.ret = "rejected"])
                /\ UNCHANGED objects
        /\ UNCHANGED <<backend, files, last, uploadVars, dirVars, moveVars>>

WritersNext ==
    \/ WriterOpen
    \/ WriterRead
    \/ WriterWrite
    \/ WriterUploadPart
    \/ WriterComplete

SpecWriters == WritersInit /\ [][WritersNext]_vars

---------------------------------------------------------------------------
(* MkdirAll, CreateFile into a directory, and ClearDir.                    *)

Ancestors(p) == {q \in Keys : Inside(q, p)}

Held(t, err) == [tree |-> t, err |-> err]

\* os.MkdirAll
LocalMkdirAll(t, p) ==
    IF \E q \in Ancestors(p) \cup {p} : t[q] = "file"
    THEN Held(t, "ENOTDIR")
    ELSE Held([k \in Keys |-> IF k \in Ancestors(p) \cup {p} THEN "dir" ELSE t[k]],
              "nil")

\* os.WriteFile of Local.CreateFile with no metadata
LocalWriteFile(t, p) ==
    IF \E q \in Ancestors(p) : t[q] = "file" THEN Held(t, "ENOTDIR")
    ELSE IF \E q \in Ancestors(p) : t[q] = "absent" THEN Held(t, "ENOENT")
    ELSE IF t[p] = "dir" THEN Held(t, "EISDIR")
    ELSE Held([t EXCEPT ![p] = "file"], "nil")

\* every name below p removed: os.RemoveAll of each child, DELETE of each
\* member of a collection
Emptied(t, p) == [k \in Keys |-> IF Inside(p, k) THEN "absent" ELSE t[k]]

LocalClearDir(t, p, fault) ==
    IF t[p] = "absent" THEN Held(t, "ErrFileNotFound")
    ELSE IF t[p] # "dir" THEN Held(t, "ErrIsNotDir")
    ELSE IF fault THEN Held(t, "EIO")
    ELSE Held(Emptied(t, p), "nil")

\* client.MkdirAll
WebDavMkdirAll(t, p) ==
    IF \E q \in Ancestors(p) \cup {p} : t[q] = "file"
    THEN Held(t, "409")
    ELSE Held([k \in Keys |-> IF k \in Ancestors(p) \cup {p} THEN "dir" ELSE t[k]],
              "nil")

\* client.Write of WebDav.CreateFile with no metadata: the client creates the
\* parent collections that are missing
davWriteFile(t, p) ==
    IF (\E q \in Ancestors(p) : t[q] = "file") \/ t[p] = "dir"
    THEN Held(t, "409")
    ELSE Held([k \in Keys |-> IF k \in Ancestors(p) THEN "dir"
                              ELSE IF k = p THEN "file" ELSE t[k]],
              "nil")

\* files, _ := w.client.ReadDir(path): the error is dropped and the loop runs
\* over what was returned, nothing when the listing failed
WebDavClearDir(t, p, fault) ==
    IF fault \/ t[p] # "dir" THEN Held(t, "nil")
    ELSE Held(Emptied(t, p), "nil")

\* PutObject of an empty body under the key path
S3MkdirAll(t, p) == Held([t EXCEPT ![p] = "marker"], "nil")

S3PutKey(t, p) == Held([t EXCEPT ![p] = "object"], "nil")

\* ListObjectsV2 with Prefix: path, then DeleteObject of every key listed
S3ClearDir(t, p, fault) ==
    IF fault THEN Held(t, "transport")
    ELSE Held([k \in Keys |-> IF HasPrefix(k, p) THEN "absent" ELSE t[k]], "nil")

MkdirAll(b, t, p) ==
    CASE b = "local" -> LocalMkdirAll(t, p)
      [] b = "webdav" -> WebDavMkdirAll(t, p)
      [] b = "s3" -> S3MkdirAll(t, p)
      [] OTHER -> Held(t, "nil")

CreateFileIn(b, t, p) ==
    CASE b = "local" -> LocalWriteFile(t, p)
      [] b = "webdav" -> davWriteFile(t, p)
      [] b = "s3" -> S3PutKey(t, p)
      [] OTHER -> Held(t, "nil")

ClearDir(b, t, p, fault) ==
    CASE b = "local" -> LocalClearDir(t, p, fault)
      [] b = "webdav" -> WebDavClearDir(t, p, fault)
      [] b = "s3" -> S3ClearDir(t, p, fault)
      [] OTHER -> Held(t, "nil")

DirInit ==
    /\ backend \in Backends
    /\ files = [p \in FilePaths |-> NoFile]
    /\ objects = [p \in CallerPaths |-> NoObject]
    /\ last = [NoCall EXCEPT !.pre = [files |-> files, objects |-> objects]]
    /\ NoUpload
    /\ NoWriters
    /\ NoDirs
    /\ NoMove

DirCall(out, call) ==
    /\ tree' = out.tree
    /\ dirCall' = [call EXCEPT !.err = out.err, !.pre = tree]
    /\ UNCHANGED <<storeVars, uploadVars, writerVars, moveVars>>

\* a call starts once the caller is done with the previous call's result
DirIdle == dirCall.op = "none"

CallMkdirAll ==
    /\ DirIdle
    /\ \E p \in Keys, ctx \in CtxArgs :
        DirCall(WithContext(backend, ctx, Held(tree, CancelError(backend)),
                    MkdirAll(backend, tree, p)),
                [NoDirCall EXCEPT !.op = "MkdirAll", !.ctx = ctx, !.path = p])

CallCreateFileIn ==
    /\ DirIdle
    /\ \E p \in Keys, ctx \in CtxArgs :
        DirCall(WithContext(backend, ctx, Held(tree, CancelError(backend)),
                    CreateFileIn(backend, tree, p)),
                [NoDirCall EXCEPT !.op = "CreateFile", !.ctx = ctx, !.path = p])

\* fault: the listing of the directory fails (an I/O or transport error)
CallClearDir ==
    /\ DirIdle
    /\ \E p \in Keys, ctx \in CtxArgs, fault \in BOOLEAN :
        DirCall(WithContext(backend, ctx, Held(tree, CancelError(backend)),
                    ClearDir(backend, tree, p, fault)),
                [NoDirCall EXCEPT !.op = "ClearDir", !.ctx = ctx, !.path = p,
                                  !.fault = fault])

\* the caller drops the result of the call it made
DirForget ==
    /\ ~DirIdle
    /\ dirCall' = NoDirCall
    /\ UNCHANGED <<tree, storeVars, uploadVars, writerVars, moveVars>>

DirNext ==
    \/ CallMkdirAll
    \/ CallCreateFileIn
    \/ CallClearDir
    \/ DirForget

SpecDir == DirInit /\ [][DirNext]_vars

---------------------------------------------------------------------------
(* What the claims speak of.                                               *)

RealBackends == {"local", "webdav", "s3"}

\* the bytes stored under a path, and whether anything is stored there
Stored(b, fs, objs, path) == IF b = "s3" THEN objs[path].body ELSE fs[path].data
Present(b, fs, objs, path) == IF b = "s3" THEN objs[path].exists ELSE fs[path].exists

Returned(op) == last.op = op /\ last.err = "nil"

ReadNow(path) == GetFile(backend, files, objects, path)
StatNow(path) == Stat(backend, files, objects, path)
ReadBefore(path) == GetFile(backend, last.pre.files, last.pre.objects, path)
StatBefore(path) == Stat(backend, last.pre.files, last.pre.objects, path)

---------------------------------------------------------------------------
(* C4 as stated: on every backend, the null backend included, and for      *)
(* every byte string B, the empty one included, create(p, B) with no       *)
(* metadata followed by read(p) returns exactly B.                         *)
C4_AsStated ==
    (Returned("CreateFile") /\ last.meta.isNil)
        => /\ ReadNow(last.path).err = "nil"
           /\ ReadNow(last.path).data = last.file

(* C4 as amended: create(p, B) with no metadata followed by read(p)        *)
(* returns exactly B on the local and the remote-protocol backend for      *)
(* every B (an empty B reads back as the empty, nil result) and on the     *)
(* object store for every non-empty B; read(p) on the object store asks    *)
(* for the range "bytes=0-", which an empty object cannot satisfy, and the *)
(* null backend stores nothing: its read returns the nil result.           *)
C4_CreateThenRead ==
    (Returned("CreateFile") /\ last.meta.isNil)
        => /\ backend \in {"local", "webdav"}
                => /\ ReadNow(last.path).err = "nil"
                   /\ ReadNow(last.path).data = last.file
                   /\ ReadNow(last.path).isNil = (last.file = <<>>)
           /\ (backend = "s3" /\ last.file # <<>>)
                => ReadNow(last.path) = Bytes(last.file)
           /\ (backend = "s3" /\ last.file = <<>>)
                => ReadNow(last.path).err = "InvalidRange"
           /\ backend = "empty" => ReadNow(last.path) = NilBytes("nil")

\* a create over a path that held other bytes, read back in full
C4_Witness ==
    /\ Returned("CreateFile") /\ last.meta.isNil
    /\ backend = "local"
    /\ Len(last.file) = MaxLen
    /\ last.pre.files[last.path].exists
    /\ last.pre.files[last.path].data # last.file
    /\ last.pre.files[last.path].data # <<>>
    /\ ReadNow(last.path) = Bytes(last.file)

(* C5: on the local, remote-protocol and object-store backends, for a path *)
(* p that did not exist before, create(p, B, meta = M) with a non-empty M  *)
(* free of '=' and newline, followed by stat(p), succeeds and returns      *)
(* metadata equal to M.                                                    *)
C5_CreateWithMetaThenStat ==
    (/\ Returned("CreateFile")
     /\ backend \in RealBackends
     /\ ~last.meta.isNil /\ last.meta.map # EmptyMap
     /\ ~Present(backend, last.pre.files, last.pre.objects, last.path))
        => /\ StatNow(last.path).err = "nil"
           /\ StatNow(last.path).meta.map = last.meta.map

(* C6: on the local, remote-protocol and object-store backends, after a    *)
(* successful copy(src, dst, override = O) of a source whose metadata is   *)
(* M, stat(dst) returns M with every key of O overriding.                  *)
C6_CopyMergesMeta ==
    (Returned("CopyFile") /\ backend \in RealBackends)
        => /\ StatNow(last.dst).err = "nil"
           /\ StatNow(last.dst).meta.map
                = MapMerge(StatBefore(last.path).meta.map, last.meta.map)

(* C7: after a successful move(src, dst) of an existing object, taken here *)
(* for two distinct paths, exists(src) is false, exists(dst) is true,      *)
(* read(dst) is the content src had and stat(dst) returns the metadata src *)
(* had, also when dst or its sidecar existed before and src had no         *)
(* metadata.                                                               *)
C7_MovePreserves ==
    (/\ Returned("MoveFile")
     /\ last.path # last.dst
     /\ IsExist(backend, last.pre.files, last.pre.objects, last.path))
        => /\ ~IsExist(backend, files, objects, last.path)
           /\ IsExist(backend, files, objects, last.dst)
           /\ ReadNow(last.dst).data = ReadBefore(last.path).data
           /\ StatNow(last.dst).meta.map = StatBefore(last.path).meta.map

(* C10: for an existing object of size S, offset >= 0 and length > 0 with  *)
(* offset + length <= S, readRange(p, offset, length) returns exactly the  *)
(* bytes at positions [offset, offset + length) of the object, and the     *)
(* object store asks for the inclusive range offset..offset+length-1; the  *)
(* call is the plain one or one whose context is not done.                 *)
C10_ReadRange ==
    (/\ last.op = "GetFilePartially"
     /\ last.ctx # "done"
     /\ IsExist(backend, files, objects, last.path)
     /\ last.length > 0
     /\ last.offset + last.length
            <= Len(Stored(backend, files, objects, last.path)))
        => /\ last.out = Bytes(SubSeq(Stored(backend, files, objects, last.path),
                                      last.offset + 1,
                                      last.offset + last.length))
           /\ backend = "s3"
                => S3Range(last.offset, last.length)
                     = ClosedRange(last.offset, last.offset + last.length - 1)

\* a range strictly inside an object of the object store
C10_Witness ==
    /\ last.op = "GetFilePartially"
    /\ backend = "s3"
    /\ objects[last.path].body = SubSeq(Text, 1, MaxLen)
    /\ last.offset = 1 /\ last.length = MaxLen - 2
    /\ last.out = Bytes(SubSeq(Text, 2, MaxLen - 1))


---------------------------------------------------------------------------
(* Claims about S3.StreamToFileWithContext.                                *)

Returns == up.pc = "done"
Succeeds == Returns /\ up.ret = "nil"
TargetBefore == last.pre.objects
AllParts == ConcatParts(up.completedParts, mpu.parts)

\* C1: while the session is open the target is what it was before the call
\* (absent if it was absent), and so is everything a concurrent IsExist,
\* GetFile or Stat observes; the target changes only by the successful
\* CompleteMultipartUpload, and then holds all the parts, never some of them.
C1_NotVisibleUntilComplete ==
    /\ mpu.state # "completed" => objects = TargetBefore
    /\ objects # TargetBefore =>
        /\ Succeeds
        /\ objects[up.path] = Object(AllParts, EmptyMap)
        /\ Len(up.completedParts) = Cardinality(DOMAIN mpu.parts)
    /\ seen.taken =>
        LET view == IF seen.session = "completed" THEN objects ELSE TargetBefore
        IN  /\ seen.exist = S3IsExist(view, up.path)
            /\ seen.out = S3GetFile(view, up.path)
            /\ seen.stat = S3Stat(view, up.path)

\* C1 witness: a reader looked at an absent target while the session held a
\* part and saw nothing, and the call then completed an object of two parts.
C1_Witness ==
    /\ seen.taken
    /\ seen.session = "open"
    /\ seen.parts >= 1
    /\ ~seen.exist
    /\ seen.out.isNil
    /\ Succeeds
    /\ Len(up.completedParts) = 2
    /\ objects[up.path] = Object(stream.all, EmptyMap)

\* C2: when the call returns after a failed UploadPart on a target that was
\* absent, the target is still absent and the session has been aborted;
\* taken for the runs in which the abort request itself meets no transport
\* failure.
C2_PartFailureAborts ==
    (/\ Returns
     /\ up.err # "nil"
     /\ ~TargetBefore[up.path].exists
     /\ up.abortErr # "transport")
    => /\ ~S3IsExist(objects, up.path)
       /\ up.aborts > 0
       /\ mpu.state = "aborted"

\* C3: when the call returns after a failed read of the source, the abort
\* has been issued, the session is aborted and the read error is returned.
C3_ReadFailureAborts ==
    (Returns /\ up.readErr # "nil")
    => /\ up.aborts > 0
       /\ mpu.state = "aborted"
       /\ up.ret = up.readErr

\* C8: a successful stream-in commits an object whose content is the whole
\* source.
C8_WholeSource ==
    Succeeds => objects[up.path] = Object(stream.all, EmptyMap)

\* C9: a successful stream-in of N > 0 bytes uploads ceil(N / ChunkSize)
\* parts, each but the last of ChunkSize bytes.
C9_PartCount ==
    (Succeeds /\ Len(stream.all) > 0)
    => /\ Len(up.completedParts) = (Len(stream.all) + ChunkSize - 1) \div ChunkSize
       /\ \A i \in 1..(Len(up.completedParts) - 1) :
            Len(mpu.parts[up.completedParts[i].PartNumber]) = ChunkSize

---------------------------------------------------------------------------
(* C11: on the local, remote-protocol and object-store backends, read,     *)
(* stat, remove and copy applied to a path (the source, for copy) that is  *)
(* absent return an error, never success.                                  *)
C11_AbsentIsNotFound ==
    (/\ backend \in RealBackends
     /\ last.op \in {"GetFile", "Stat", "RemoveFile", "CopyFile"}
     /\ ~Present(backend, last.pre.files, last.pre.objects, last.path))
        => last.err # "nil"

---------------------------------------------------------------------------
(* Claims about the cancellable variants.                                  *)

StateUnchanged == files = last.pre.files /\ objects = last.pre.objects

\* the outcomes of the plain method for the arguments of the last call, made
\* in the state before it
PlainOutcomes ==
    LET fs == last.pre.files
        objs == last.pre.objects
    IN  CASE last.op = "CreateFile" ->
               CreateFile(backend, fs, objs, last.path, last.file, last.meta)
          [] last.op = "CopyFile" ->
               CopyFile(backend, fs, objs, last.path, last.dst, last.meta)
          [] last.op = "MoveFile" ->
               MoveFile(backend, fs, objs, last.path, last.dst)
          [] last.op = "RemoveFile" ->
               RemoveFile(backend, fs, objs, last.path)
          [] OTHER -> Untouched(fs, objs)

\* what the plain query returns for the arguments of the last call
PlainAnswer ==
    LET fs == last.pre.files
        objs == last.pre.objects
    IN  CASE last.op = "GetFile" -> GetFile(backend, fs, objs, last.path)
          [] last.op = "GetFilePartially" ->
               GetFilePartially(backend, fs, objs, last.path, last.offset,
                                last.length)
          [] OTHER -> NilBytes("nil")

Mutations == {"CreateFile", "CopyFile", "MoveFile", "RemoveFile"}

---------------------------------------------------------------------------
(* Claims about two writers of one path.                                   *)

BothWrote ==
    /\ Len(finished) = 2
    /\ \A w \in Writers : writers[w].ret = "nil"

\* C13: when both writers of the path have returned successfully, the path
\* holds the complete input of the writer that returned last.
C13_LastWriterWins ==
    BothWrote
        => Stored(backend, files, objects, SharedPath) = writers[finished[2]].src

---------------------------------------------------------------------------
---------------------------------------------------------------------------
(* Claims about directories.                                               *)

\* p was a directory with nothing in it: a directory of the file tree, or
\* in the bucket the marker MkdirAll puts, with no name below it
EmptyDirBefore(p) ==
    /\ dirCall.pre[p] = IF backend = "s3" THEN "marker" ELSE "dir"
    /\ \A k \in Keys : Inside(p, k) => dirCall.pre[k] = "absent"

\* nothing was at p and nothing below it
NothingBefore(p) ==
    /\ dirCall.pre[p] = "absent"
    /\ \A k \in Keys : Inside(p, k) => dirCall.pre[k] = "absent"

\* C15: ClearDir(p) of an existing directory with no entries returns no
\* error and changes nothing, on the local, remote-protocol and object-store
\* backends; of a path that does not exist it returns ErrFileNotFound on the
\* local backend and returns no error and changes nothing on the other two.
C15_ClearEmptyOrAbsent ==
    (/\ dirCall.op = "ClearDir"
     /\ dirCall.ctx # "done"
     /\ ~dirCall.fault
     /\ backend \in RealBackends)
        => /\ EmptyDirBefore(dirCall.path)
                => dirCall.err = "nil" /\ tree = dirCall.pre
           /\ NothingBefore(dirCall.path)
                => /\ tree = dirCall.pre
                   /\ dirCall.err = IF backend = "local" THEN "ErrFileNotFound"
                                    ELSE "nil"

\* C16: no operation returns success after one of its underlying steps failed
\* (apart from the exempted absent sidecar and malformed sidecar lines): in
\* particular a ClearDir whose listing of an existing directory failed does
\* not return nil, on any backend.
C16_FailedStepIsReported ==
    (/\ dirCall.op = "ClearDir"
     /\ dirCall.ctx # "done"
     /\ dirCall.fault
     /\ backend \in RealBackends
     /\ dirCall.pre[dirCall.path] \in {"dir", "marker"})
        => dirCall.err # "nil"

---------------------------------------------------------------------------
(* The null backend on its own: every method of Empty, plain and          *)
(* cancellable, called in any order.                                       *)

EmptyInit ==
    /\ backend = "empty"
    /\ files = [p \in FilePaths |-> NoFile]
    /\ objects = [p \in CallerPaths |-> NoObject]
    /\ last = [NoCall EXCEPT !.pre = [files |-> [p \in FilePaths |-> NoFile],
                                      objects |-> [p \in CallerPaths |-> NoObject]]]
    /\ NoUpload
    /\ NoWriters
    /\ NoDirs
    /\ NoMove

CallStreamToFile ==
    /\ Idle
    /\ \E path \in CallerPaths, src \in Sources, ctx \in CtxArgs :
        Mutate({[files |-> files, objects |-> objects,
                 err |-> WithContext(backend, ctx, CancelError(backend),
                             EmptyStreamToFile(src, path))]},
               [NoCall EXCEPT !.op = "StreamToFile", !.ctx = ctx, !.path = path,
                              !.file = src])

CallFileReader ==
    /\ Idle
    /\ \E path \in CallerPaths, offset \in Offsets, length \in Lengths,
          ctx \in CtxArgs :
        LET out == WithContext(backend, ctx, NilBytes(CancelError(backend)),
                       EmptyFileReader(path, offset, length))
        IN  Observe([NoCall EXCEPT !.op = "FileReader", !.ctx = ctx,
                         !.path = path,
                         !.offset = offset, !.length = length,
                         !.out = out, !.err = out.err])

EmptyNext ==
    \/ CallCreateFile
    \/ CallCopyFile
    \/ CallMoveFile
    \/ CallRemoveFile
    \/ CallIsExist
    \/ CallGetFile
    \/ CallGetFilePartially
    \/ CallStat
    \/ CallStreamToFile
    \/ CallFileReader
    \/ CallMkdirAll
    \/ CallClearDir
    \/ Forget
    \/ DirForget

SpecEmpty == EmptyInit /\ [][EmptyNext]_vars

---------------------------------------------------------------------------
(* Claims about the null backend.                                          *)

NothingStored ==
    /\ files = [p \in FilePaths |-> NoFile]
    /\ objects = [p \in CallerPaths |-> NoObject]
    /\ tree = EmptyTree

\* C17: on the null backend, after any sequence of operations, every mutation
\* (create, copy, move, stream-in, remove, clear, mkdir and their cancellable
\* variants) returned success, and every query reports absence and no error:
\* IsExist is false, GetFile, GetFilePartially and FileReader return nil,
\* Stat returns no descriptor and no metadata.
C17_NullBackend ==
    backend = "empty" =>
        /\ NothingStored
        /\ last.err = "nil"
        /\ dirCall.err = "nil"
        /\ last.op = "IsExist" => ~last.exist
        /\ last.op \in {"GetFile", "GetFilePartially", "FileReader"}
               => last.out = NilBytes("nil")
        /\ last.op = "Stat" => last.stat = NoStat("nil")

\* a directory has been made, and a stat made with a context that is done is
\* answered with nothing and no error
C17_Witness ==
    /\ backend = "empty"
    /\ dirCall.op = "MkdirAll"
    /\ dirCall.err = "nil"
    /\ last.op = "Stat"
    /\ last.ctx = "done"
    /\ last.stat = NoStat("nil")

\* C18: on the local and webdav backends, after a successful copy(src, dst,
\* override) between two distinct paths, every key and value of the metadata
\* stat(dst) returns comes from the metadata src had or from the override:
\* nothing is left over from a sidecar dst had before the copy.
C18_NoStaleMeta ==
    (/\ Returned("CopyFile")
     /\ backend \in {"local", "webdav"}
     /\ last.path # last.dst)
        => LET now == StatNow(last.dst).meta.map
               taken == MapMerge(StatBefore(last.path).meta.map, last.meta.map)
           IN  \A k \in DOMAIN now : k \in DOMAIN taken /\ taken[k] = now[k]

\* C19: at every point of an S3 chunked upload the list of completed parts
\* has the part numbers 1, 2, ..., k in that order, each entry carries the
\* ETag UploadPart returned for the part of that number, the next part number
\* is k + 1, and the list CompleteMultipartUpload receives is this list.
C19_PartsInOrder ==
    LET list == up.completedParts
    IN  /\ up.partNumber = Len(list) + 1
        /\ \A i \in 1..Len(list) :
            /\ list[i].PartNumber = i
            /\ mpu.state \in {"open", "completed"}
                 => /\ i \in DOMAIN mpu.parts
                    /\ list[i].ETag = ETag(mpu.parts[i])
        /\ up.submitted # <<>> => up.submitted = list

\* a source sent in two parts, the list of the two handed over and accepted
C19_Witness ==
    /\ up.pc = "done"
    /\ up.ret = "nil"
    /\ Len(up.completedParts) = 2
    /\ up.submitted = up.completedParts
    /\ mpu.state = "completed"

\* C20: when S3.StreamToFileWithContext returns, the session it opened is
\* completed or aborted; in particular when CompleteMultipartUpload fails, the
\* session is aborted before the error is returned.
C20_SessionTerminal ==
    (Returns /\ mpu.state # "none") => mpu.state \in {"completed", "aborted"}

\* C21: when the cancellation signal fires while a chunked upload is under
\* way and UploadPart fails for it, the abort request is delivered and not
\* itself cancelled: when the call returns the session is aborted.
C21_AbortDelivered ==
    (Returns /\ up.err = "context canceled")
        => /\ up.aborts > 0
           /\ up.abortErr = "nil"
           /\ mpu.state = "aborted"

---------------------------------------------------------------------------
(* MoveFile taken step by step: S3.MoveFileWithContext and Local.MoveFile. *)

\* what the call does after a step of S3.MoveFileWithContext that went on
\* whatever it returned
S3MoveOnDespiteError(step, err) ==
    CASE step = "copy" -> "waitDst"
      [] step = "waitDst" -> "delete"
      [] step = "delete" -> "waitSrc"
      [] OTHER -> "done"

\* S3.MoveFileWithContext: if err != nil { return err } after each step, the
\* next step otherwise
S3MoveStepAfter(step, err) ==
    IF err # "nil" THEN "done"
    ELSE CASE step = "copy" -> "waitDst"
           [] step = "waitDst" -> "delete"
           [] step = "delete" -> "waitSrc"
           [] OTHER -> "done"

\* the locals after a step that returned err and leads to the position next
Stepped(m, step, err, next) ==
    [m EXCEPT !.steps = Append(@, [step |-> step, err |-> err]),
              !.pc = next,
              !.ret = IF next = "done" THEN err ELSE @]

\* the call is made on a store in which src and dst each hold something or
\* nothing, with a context that is live or already done
MoveInit ==
    /\ backend \in {"local", "s3"}
    /\ \E src \in CallerPaths, dst \in CallerPaths,
          body \in {SubSeq(Text, 1, n) : n \in 0..MaxLen},
          hasSrc \in BOOLEAN, hasMeta \in BOOLEAN, hasDst \in BOOLEAN :
        LET old == <<"o", "l", "d">>
            fs == [p \in FilePaths |->
                     IF backend # "local" THEN NoFile
                     ELSE IF p = src /\ hasSrc THEN File(body)
                     ELSE IF p = META_PREFIX(src) /\ hasSrc /\ hasMeta
                          THEN File(CHOOSE enc \in meta2Bytes(BobMeta) : TRUE)
                     ELSE IF p = dst /\ hasDst THEN File(old)
                     ELSE NoFile]
            objs == [p \in CallerPaths |->
                       IF backend # "s3" THEN NoObject
                       ELSE IF p = src /\ hasSrc
                            THEN Object(body, IF hasMeta THEN BobMeta ELSE EmptyMap)
                       ELSE IF p = dst /\ hasDst THEN Object(old, EmptyMap)
                       ELSE NoObject]
        IN  /\ files = fs
            /\ objects = objs
            /\ last = [NoCall EXCEPT !.pre = [files |-> fs, objects |-> objs]]
            /\ mv = [IdleMove EXCEPT !.pc = "start", !.src = src, !.dst = dst,
                                     !.original = IF backend = "local"
                                                  THEN fs[src].data
                                                  ELSE objs[src].body]
    /\ up = IdleUpload
    /\ stream = NoStream
    /\ mpu = NoSession
    /\ ctxDone \in BOOLEAN
    /\ seen = NoObservation
    /\ NoWriters
    /\ NoDirs

\* s.client.CopyObjectWithContext(ctx, {CopySource: bucket/src, Key: dst})
S3MoveCopyObject ==
    /\ backend = "s3"
    /\ mv.pc = "start"
    /\ \E fault \in BOOLEAN :
        LET err == IF CallError(fault) # "nil" THEN CallError(fault)
                   ELSE IF ~objects[mv.src].exists THEN "NoSuchKey"
                   ELSE IF mv.src = mv.dst THEN "InvalidRequest"
                   ELSE "nil"
        IN  /\ objects' = IF err = "nil"
                          THEN [objects EXCEPT ![mv.dst] = objects[mv.src]]
                          ELSE objects
            /\ mv' = Stepped(mv, "copy", err, S3MoveStepAfter("copy", err))
    /\ UNCHANGED <<backend, files, last, uploadVars, writerVars, dirVars>>

\* s.client.WaitUntilObjectExistsWithContext(ctx, {Key: dst})
S3MoveWaitUntilExists ==
    /\ backend = "s3"
    /\ mv.pc = "waitDst"
    /\ \E fault \in BOOLEAN :
        LET err == IF CallError(fault) # "nil" THEN CallError(fault)
                   ELSE IF ~objects[mv.dst].exists THEN "ResourceNotReady"
                   ELSE "nil"
        IN  mv' = Stepped(mv, "waitDst", err, S3MoveStepAfter("waitDst", err))
    /\ UNCHANGED <<storeVars, uploadVars, writerVars, dirVars>>

\* s.client.DeleteObjectWithContext(ctx, {Key: src})
S3MoveDeleteObject ==
    /\ backend = "s3"
    /\ mv.pc = "delete"
    /\ \E fault \in BOOLEAN :
        LET err == CallError(fault)
        IN  /\ objects' = IF err = "nil" THEN s3DeleteObject(objects, mv.src)
                          ELSE objects
            /\ mv' = Stepped(mv, "delete", err, S3MoveStepAfter("delete", err))
    /\ UNCHANGED <<backend, files, last, uploadVars, writerVars, dirVars>>

\* s.client.WaitUntilObjectNotExistsWithContext(ctx, {Key: src}); return nil
S3MoveWaitUntilNotExists ==
    /\ backend = "s3"
    /\ mv.pc = "waitSrc"
    /\ \E fault \in BOOLEAN :
        LET err == IF CallError(fault) # "nil" THEN CallError(fault)
                   ELSE IF objects[mv.src].exists THEN "ResourceNotReady"
                   ELSE "nil"
        IN  mv' = Stepped(mv, "waitSrc", err, S3MoveStepAfter("waitSrc", err))
    /\ UNCHANGED <<storeVars, uploadVars, writerVars, dirVars>>

\* the cancellation signal fires while the call runs
MoveCtxCancel ==
    /\ mv.pc \notin {"idle", "done"}
    /\ ~ctxDone
    /\ ctxDone' = TRUE
    /\ UNCHANGED <<storeVars, up, stream, mpu, seen, writerVars, dirVars, moveVars>>

\* Local.MoveFile: return err after a step that failed, the next step
\* otherwise
LocalMoveStepAfter(step, err) ==
    IF err # "nil" THEN "done"
    ELSE CASE step = "stat" -> "open"
           [] step = "open" -> "create"
           [] step = "create" -> "copy"
           [] step = "copy" -> "remove"
           [] step = "remove" -> "sync"
           [] step = "sync" -> "meta"
           [] OTHER -> "done"

\* Local.MoveFileWithContext tests ctx once, then os.Stat(src)
LocalMoveStat ==
    /\ backend = "local"
    /\ mv.pc = "start"
    /\ LET err == IF ctxDone THEN "context canceled"
                  ELSE IF ~files[mv.src].exists THEN "ErrFileNotFound"
                  ELSE "nil"
       IN  mv' = Stepped(mv, "stat", err, LocalMoveStepAfter("stat", err))
    /\ UNCHANGED <<storeVars, uploadVars, writerVars, dirVars>>

\* inputFile, err := os.Open(src)
LocalMoveOpen ==
    /\ backend = "local"
    /\ mv.pc = "open"
    /\ \E fault \in BOOLEAN :
        LET err == IF fault THEN "EACCES" ELSE "nil"
        IN  mv' = Stepped(mv, "open", err, LocalMoveStepAfter("open", err))
    /\ UNCHANGED <<storeVars, uploadVars, writerVars, dirVars>>

\* outputFile, err := os.Create(dst)
LocalMoveCreate ==
    /\ backend = "local"
    /\ mv.pc = "create"
    /\ \E fault \in BOOLEAN :
        LET err == IF fault THEN "EACCES" ELSE "nil"
        IN  /\ files' = IF fault THEN files ELSE osCreate(files, mv.dst)
            /\ mv' = Stepped(mv, "create", err, LocalMoveStepAfter("create", err))
    /\ UNCHANGED <<backend, objects, last, uploadVars, writerVars, dirVars>>

\* _, err = io.Copy(outputFile, inputFile): what the file opened as src holds
\* now goes to dst, all of it or, when a read or a write fails, a part of it
LocalMoveCopy ==
    /\ backend = "local"
    /\ mv.pc = "copy"
    /\ LET data == files[mv.src].data
       IN  \E n \in 0..Len(data) :
            LET err == IF n < Len(data) THEN "EIO" ELSE "nil"
            IN  /\ files' = osWriteFile(files, mv.dst, SubSeq(data, 1, n))
                /\ mv' = Stepped(mv, "copy", err, LocalMoveStepAfter("copy", err))
    /\ UNCHANGED <<backend, objects, last, uploadVars, writerVars, dirVars>>

\* os.Remove(src)
LocalMoveRemove ==
    /\ backend = "local"
    /\ mv.pc = "remove"
    /\ \E fault \in BOOLEAN :
        LET err == IF fault THEN "EPERM" ELSE "nil"
        IN  /\ files' = IF fault THEN files ELSE osRemove(files, mv.src)
            /\ mv' = Stepped(mv, "remove", err, LocalMoveStepAfter("remove", err))
    /\ UNCHANGED <<backend, objects, last, uploadVars, writerVars, dirVars>>

\* outputFile.Sync()
LocalMoveSync ==
    /\ backend = "local"
    /\ mv.pc = "sync"
    /\ \E fault \in BOOLEAN :
        LET err == IF fault THEN "EIO" ELSE "nil"
        IN  mv' = Stepped(mv, "sync", err, LocalMoveStepAfter("sync", err))
    /\ UNCHANGED <<storeVars, uploadVars, writerVars, dirVars>>

\* the sidecar: os.Stat(src + META_PREFIX) and, when it holds something, the
\* same open, create, copy, remove and sync
LocalMoveMeta ==
    /\ backend = "local"
    /\ mv.pc = "meta"
    /\ \E fault \in BOOLEAN :
        LET err == IF fault THEN "EIO" ELSE "nil"
            metaFile == files[META_PREFIX(mv.src)]
        IN  /\ files' = IF ~fault /\ metaFile.exists /\ Len(metaFile.data) > 0
                        THEN osRemove(osCopy(files, META_PREFIX(mv.src),
                                             META_PREFIX(mv.dst)),
                                      META_PREFIX(mv.src))
                        ELSE files
            /\ mv' = Stepped(mv, "meta", err, LocalMoveStepAfter("meta", err))
    /\ UNCHANGED <<backend, objects, last, uploadVars, writerVars, dirVars>>

MoveNext ==
    \/ S3MoveCopyObject
    \/ S3MoveWaitUntilExists
    \/ S3MoveDeleteObject
    \/ S3MoveWaitUntilNotExists
    \/ MoveCtxCancel
    \/ LocalMoveStat
    \/ LocalMoveOpen
    \/ LocalMoveCreate
    \/ LocalMoveCopy
    \/ LocalMoveRemove
    \/ LocalMoveSync
    \/ LocalMoveMeta

SpecMove == MoveInit /\ [][MoveNext]_vars

---------------------------------------------------------------------------
(* Claims about MoveFile step by step.                                     *)

StepNames(m) == [i \in 1..Len(m.steps) |-> m.steps[i].step]
StepFailed(m, i) == m.steps[i].err # "nil"

\* C22: S3.MoveFileWithContext makes its steps in the order copy, wait for
\* dst, delete src, wait for src to be gone; src is deleted only after the
\* copy succeeded and dst was confirmed present; success is returned only
\* after src was confirmed absent; a step that fails is the last one made and
\* its error is what the call returns; src is as it was whenever the copy or
\* the wait for dst failed.
C22_MoveStepsInOrder ==
    backend = "s3" =>
        LET n == Len(mv.steps)
            order == <<"copy", "waitDst", "delete", "waitSrc">>
        IN  /\ n <= 4
            /\ StepNames(mv) = SubSeq(order, 1, n)
            /\ \A i \in 1..n : StepFailed(mv, i) => i = n /\ mv.pc = "done"
            /\ n >= 3 => /\ ~StepFailed(mv, 1)
                         /\ ~StepFailed(mv, 2)
            /\ (mv.pc = "done" /\ n > 0) => mv.ret = mv.steps[n].err
            /\ (mv.pc = "done" /\ mv.ret = "nil")
                   => /\ n = 4
                      /\ ~objects[mv.src].exists
                      /\ objects[mv.dst] = last.pre.objects[mv.src]
            /\ (n \in {1, 2} /\ StepFailed(mv, n))
                   => objects[mv.src] = last.pre.objects[mv.src]

\* a move that went through all four steps and returned nil
C22_Witness ==
    /\ backend = "s3"
    /\ mv.pc = "done"
    /\ mv.ret = "nil"
    /\ Len(mv.steps) = 4
    /\ objects[mv.dst].exists

\* C30: in Local.MoveFile, for any src and dst, dst = src included, the
\* content src had when the call was made is whole at src or at dst at every
\* step and on every return, and src is removed only once dst holds all of it.
C30_ContentNeverLost ==
    (/\ backend = "local"
     /\ mv.pc # "idle"
     /\ last.pre.files[mv.src].exists)
        => \/ files[mv.src] = File(mv.original)
           \/ files[mv.dst] = File(mv.original)

---------------------------------------------------------------------------
(* Claims about what create and copy write.                                *)

\* the sidecar of path holds an encoding of the mapping m
SidecarHolds(path, m) ==
    /\ files[META_PREFIX(path)].exists
    /\ files[META_PREFIX(path)].data \in meta2Bytes(m)

C24_OverrideReachesSidecar ==
    (/\ Returned("CopyFile")
     /\ backend \in {"local", "webdav"}
     /\ last.path # last.dst
     /\ last.pre.files[META_PREFIX(last.path)].data = <<>>
     /\ ~last.meta.isNil
     /\ last.meta.map # EmptyMap)
        => SidecarHolds(last.dst, last.meta.map)

---------------------------------------------------------------------------
(* Claims about range reads.                                               *)

\* C25: on the local backend, readRange(p, offset, length) of an existing
\* object of size S with length > 0, offset <= S and offset + length > S
\* returns, without error, exactly the S - offset bytes from offset to the end
\* of the object.
C25_LocalRangeTruncates ==
    (/\ last.op = "GetFilePartially"
     /\ last.ctx # "done"
     /\ backend = "local"
     /\ LocalIsExist(files, last.path)
     /\ last.length > 0
     /\ last.offset <= Len(files[last.path].data)
     /\ last.offset + last.length > Len(files[last.path].data))
        => /\ last.out.err = "nil"
           /\ last.out.data = SubSeq(files[last.path].data, last.offset + 1,
                                     Len(files[last.path].data))

\* the bytes of the object at last.path from last.offset to its end
ToEnd ==
    LET data == Stored(backend, files, objects, last.path)
    IN  SubSeq(data, last.offset + 1, Len(data))

\* a range read of an existing object, made with a length that is not
\* positive and an offset inside the object
SentinelRead ==
    /\ last.op = "GetFilePartially"
    /\ last.ctx # "done"
    /\ backend \in {"local", "s3"}
    /\ Present(backend, files, objects, last.path)
    /\ last.length <= 0
    /\ last.offset < Len(Stored(backend, files, objects, last.path))

\* C26 as stated: with any length that is not positive, zero as well as
\* negative, readRange returns the bytes from offset to the end of the
\* object, on the local and on the s3 backend.
C26_AsStated ==
    SentinelRead => last.out.err = "nil" /\ last.out.data = ToEnd

\* C26 as amended: readRange returns the bytes from offset to the end of the
\* object with a negative length on the local backend and with any length
\* that is not positive on the s3 backend; with length zero the local backend
\* returns no bytes.
C26_ToEndSentinel ==
    SentinelRead
        => /\ last.out.err = "nil"
           /\ last.out.data = IF backend = "local" /\ last.length = 0
                              THEN <<>> ELSE ToEnd

\* a local read with length -1 from offset 1 of a three-byte file
C26_Witness ==
    /\ SentinelRead
    /\ backend = "local"
    /\ last.length = -1
    /\ last.offset = 1
    /\ last.out.data = <<"e", "l">>

---------------------------------------------------------------------------
(* Local.StreamToFile taken step by step.                                  *)

RECURSIVE Flatten(_)
\* the bytes of a list of chunks, in order
Flatten(list) == IF list = <<>> THEN <<>> ELSE Head(list) \o Flatten(Tail(list))

\* the call is made with a source and a target that is absent or holds an
\* older file
LocalStreamInit ==
    /\ backend = "local"
    /\ objects = [p \in CallerPaths |-> NoObject]
    /\ \E path \in CallerPaths, old \in {NoFile, File(<<"o", "l", "d">>)},
          src \in Sources :
        LET fs == [p \in FilePaths |-> IF p = path THEN old ELSE NoFile]
        IN  /\ files = fs
            /\ up = [IdleUpload EXCEPT !.pc = "start", !.path = path]
            /\ stream = [all |-> src, rest |-> src]
            /\ last = [NoCall EXCEPT !.pre =
                         [files |-> fs,
                          objects |-> [p \in CallerPaths |-> NoObject]]]
    /\ mpu = NoSession
    /\ ctxDone = FALSE
    /\ seen = NoObservation
    /\ NoWriters
    /\ NoDirs
    /\ NoMove

\* file, err := os.Create(path)
LocalStreamCreate ==
    /\ backend = "local"
    /\ up.pc = "start"
    /\ \E fault \in BOOLEAN :
        IF fault
        THEN /\ up' = [up EXCEPT !.pc = "done", !.ret = "EACCES"]
             /\ UNCHANGED files
        ELSE /\ up' = [up EXCEPT !.pc = "read"]
             /\ files' = osCreate(files, up.path)
    /\ UNCHANGED <<backend, objects, last, stream, mpu, ctxDone, seen,
                   writerVars, dirVars, moveVars>>

\* n, err := stream.Read(buf) and the two tests that follow it, with the
\* 1 MiB buffer; up.chunks keeps the chunks the loop went on to write
LocalStreamRead ==
    /\ backend = "local"
    /\ up.pc = "read"
    /\ \E n \in 0..Min(LocalChunkSize, Len(stream.rest)),
          err \in {"nil", "EOF", "read error"} :
        /\ err = "EOF" => n = Len(stream.rest)
        /\ stream' = [stream EXCEPT !.rest = SubSeq(stream.rest, n + 1,
                                                    Len(stream.rest))]
        /\ up' = IF err = "read error"
                 THEN [up EXCEPT !.pc = "done", !.ret = err, !.readErr = err]
                 ELSE IF n = 0
                 THEN [up EXCEPT !.pc = "done", !.ret = "nil"]
                 ELSE [up EXCEPT !.pc = "write",
                                 !.buf = SubSeq(stream.rest, 1, n),
                                 !.chunks = Append(@, SubSeq(stream.rest, 1, n))]
    /\ UNCHANGED <<storeVars, mpu, ctxDone, seen, writerVars, dirVars, moveVars>>

\* _, err = file.Write(buf[:n]) at the offset of the descriptor, which is the
\* number of bytes the call has written; a write that fails may have written
\* a part of the buffer
LocalStreamWrite ==
    /\ backend = "local"
    /\ up.pc = "write"
    /\ LET offset == Len(Flatten(up.chunks)) - Len(up.buf)
       IN  \E m \in 0..Len(up.buf) :
            /\ files' = osWriteAt(files, up.path, offset, SubSeq(up.buf, 1, m))
            /\ up' = IF m < Len(up.buf)
                     THEN [up EXCEPT !.pc = "done", !.ret = "EIO", !.err = "EIO"]
                     ELSE [up EXCEPT !.pc = "read"]
    /\ UNCHANGED <<backend, objects, last, stream, mpu, ctxDone, seen,
                   writerVars, dirVars, moveVars>>

LocalStreamNext ==
    \/ LocalStreamCreate
    \/ LocalStreamRead
    \/ LocalStreamWrite

SpecLocalStream == LocalStreamInit /\ [][LocalStreamNext]_vars

---------------------------------------------------------------------------
(* Claims about Local.StreamToFile.                                        *)

\* C27: when Local.StreamToFile returns because a read of the source failed
\* after k chunks were read, it returns that error and the destination exists
\* and holds exactly those k chunks in order, nothing of what it held before
\* the call.
C27_ChunksKeptOnReadFailure ==
    (backend = "local" /\ up.pc = "done" /\ up.readErr # "nil")
        => /\ up.ret = up.readErr
           /\ files[up.path] = File(Flatten(up.chunks))

\* the read fails after two chunks went to a destination that held a file
C27_Witness ==
    /\ backend = "local"
    /\ up.pc = "done"
    /\ up.readErr # "nil"
    /\ Len(up.chunks) = 2
    /\ last.pre.files[up.path] = File(<<"o", "l", "d">>)
    /\ files[up.path] = File(<<"h", "e">>)

---------------------------------------------------------------------------
(* The metadata codec on its own: meta2Bytes of a mapping, bytes2Meta of   *)
(* what it produced, and bytes2Meta of arbitrary bytes.                    *)

\* the longest byte string handed to bytes2Meta
MaxBytes == 5

\* keys and values without '=' and newline, the empty one included
CodecWords == {<<>>, <<"k">>, <<"v">>}

\* every mapping of some of the words to words, the empty mapping included
CodecMaps == UNION {[ks -> CodecWords] : ks \in SUBSET CodecWords}

RECURSIVE BytesUpTo(_)
\* the byte strings of at most n bytes over a letter, '=' and newline
BytesUpTo(n) ==
    IF n = 0 THEN {<<>>}
    ELSE LET shorter == BytesUpTo(n - 1)
         IN  shorter \cup {<<c>> \o b : c \in {"k", EQ, NL},
                                        b \in {x \in shorter : Len(x) = n - 1}}

CodecInit ==
    /\ backend = "local"
    /\ files = [p \in FilePaths |-> NoFile]
    /\ objects = [p \in CallerPaths |-> NoObject]
    /\ last = [NoCall EXCEPT !.pre = [files |-> [p \in FilePaths |-> NoFile],
                                      objects |-> [p \in CallerPaths |-> NoObject]]]
    /\ NoUpload
    /\ NoWriters
    /\ NoDirs
    /\ NoMove

\* meta2Bytes(meta): last.file is what it returned
CodecEncode ==
    /\ Idle
    /\ \E m \in CodecMaps :
        \E enc \in meta2Bytes(m) :
            Observe([NoCall EXCEPT !.op = "meta2Bytes", !.meta = Meta(m),
                                   !.file = enc])

\* bytes2Meta of the bytes meta2Bytes returned: last.stat.meta is the result
CodecDecodeEncoded ==
    /\ last.op = "meta2Bytes"
    /\ Observe([last EXCEPT !.op = "roundTrip",
                            !.stat = StatOf(Len(last.file),
                                            Meta(bytes2Meta(last.file)))])

\* bytes2Meta(b) of any bytes
CodecDecode ==
    /\ Idle
    /\ \E b \in BytesUpTo(MaxBytes) :
        Observe([NoCall EXCEPT !.op = "bytes2Meta", !.file = b,
                               !.stat = StatOf(Len(b), Meta(bytes2Meta(b)))])

CodecNext ==
    \/ CodecEncode
    \/ CodecDecodeEncoded
    \/ CodecDecode
    \/ Forget

SpecCodec == CodecInit /\ [][CodecNext]_vars

---------------------------------------------------------------------------
(* Claims about the codec.                                                 *)

\* the lines of b as pairs of positions: a line starts at the start of b or
\* after a newline, ends at the end of b or before a newline, and holds none
LinesAt(b) ==
    {se \in (1..(Len(b) + 1)) \X (0..Len(b)) :
        /\ se[2] >= se[1] - 1
        /\ se[1] = 1 \/ b[se[1] - 1] = NL
        /\ se[2] = Len(b) \/ b[se[2] + 1] = NL
        /\ \A i \in se[1]..se[2] : b[i] # NL}

\* the positions of '=' in a line
EqualsIn(b, se) == {i \in se[1]..se[2] : b[i] = EQ}

\* the lines with exactly one '='
WellFormedLines(b) == {se \in LinesAt(b) : Cardinality(EqualsIn(b, se)) = 1}

KeyAt(b, se) == SubSeq(b, se[1], (CHOOSE i \in EqualsIn(b, se) : TRUE) - 1)
ValueAt(b, se) == SubSeq(b, (CHOOSE i \in EqualsIn(b, se) : TRUE) + 1, se[2])

\* the mapping the well-formed lines of b spell, a later line winning over an
\* earlier one with the same key
KeptLines(b) ==
    LET wf == WellFormedLines(b)
    IN  [k \in {KeyAt(b, se) : se \in wf} |->
            LET mine == {se \in wf : KeyAt(b, se) = k}
                latest == CHOOSE se \in mine : \A o \in mine : o[1] <= se[1]
            IN  ValueAt(b, latest)]

\* C28: for every mapping M whose keys and values hold neither '=' nor a
\* newline (empty keys, empty values and the empty mapping included),
\* bytes2Meta(meta2Bytes(M)) = M; and bytes2Meta of any bytes drops the blank
\* lines and the lines that do not hold exactly one '=' and keeps every
\* well-formed line.
C28_CodecRoundTrip ==
    /\ last.op = "roundTrip" => last.stat.meta.map = last.meta.map
    /\ last.op = "bytes2Meta" => last.stat.meta.map = KeptLines(last.file)

\* a mapping with an empty key and an empty value went through the codec
C28_Witness ==
    /\ last.op = "roundTrip"
    /\ DOMAIN last.meta.map = {<<>>, <<"k">>}
    /\ last.meta.map[<<"k">>] = <<>>
    /\ last.stat.meta.map = last.meta.map

---------------------------------------------------------------------------
(* The sidecar backends called on paths of the caller's choice, a path     *)
(* that ends in META_PREFIX included.                                      *)

\* what the caller writes: plain bytes, and bytes that read as a sidecar
FrameContents == {<<"h">>, MetaLine(Owner, <<"a">>)}

FrameMetaArgs == {NilMeta, Meta(BobMeta)}

\* Local.StreamToFile and WebDav.StreamToFile of a source that delivers all
\* its bytes: the file is created or truncated and receives them
StreamToFileWhole(b, fs, objs, path, src) ==
    IF b = "local"
    THEN {[files |-> osWriteFile(fs, path, src), objects |-> objs, err |-> "nil"]}
    ELSE {[files |-> davWrite(fs, path, src), objects |-> objs, err |-> "nil"]}

FrameInit ==
    /\ backend \in {"local", "webdav"}
    /\ files = [p \in FilePaths |-> NoFile]
    /\ objects = [p \in CallerPaths |-> NoObject]
    /\ last = [NoCall EXCEPT !.pre = [files |-> [p \in FilePaths |-> NoFile],
                                      objects |-> [p \in CallerPaths |-> NoObject]]]
    /\ NoUpload
    /\ NoWriters
    /\ NoDirs
    /\ NoMove

FrameCreateFile ==
    /\ Idle
    /\ \E path \in FramePaths, file \in FrameContents, meta \in FrameMetaArgs :
        Mutate(CreateFile(backend, files, objects, path, file, meta),
               [NoCall EXCEPT !.op = "CreateFile", !.path = path, !.dst = path,
                              !.file = file, !.meta = meta])

FrameCopyFile ==
    /\ Idle
    /\ \E src \in FramePaths, dst \in FramePaths, meta \in FrameMetaArgs :
        Mutate(CopyFile(backend, files, objects, src, dst, meta),
               [NoCall EXCEPT !.op = "CopyFile", !.path = src, !.dst = dst,
                              !.meta = meta])

FrameMoveFile ==
    /\ Idle
    /\ \E src \in FramePaths, dst \in FramePaths :
        Mutate(MoveFile(backend, files, objects, src, dst),
               [NoCall EXCEPT !.op = "MoveFile", !.path = src, !.dst = dst])

FrameStreamToFile ==
    /\ Idle
    /\ \E path \in FramePaths, src \in FrameContents :
        Mutate(StreamToFileWhole(backend, files, objects, path, src),
               [NoCall EXCEPT !.op = "StreamToFile", !.path = path,
                              !.dst = path, !.file = src])

FrameRemoveFile ==
    /\ Idle
    /\ \E path \in FramePaths :
        Mutate(RemoveFile(backend, files, objects, path),
               [NoCall EXCEPT !.op = "RemoveFile", !.path = path, !.dst = path])

FrameNext ==
    \/ FrameCreateFile
    \/ FrameCopyFile
    \/ FrameMoveFile
    \/ FrameStreamToFile
    \/ FrameRemoveFile
    \/ Forget

SpecFrame == FrameInit /\ [][FrameNext]_vars

---------------------------------------------------------------------------
(* Claims about what a call leaves alone.                                  *)

\* the paths the last call was made on: the path written or removed, and for
\* a move the source as well
PathsOfCall == IF last.op = "MoveFile" THEN {last.path, last.dst} ELSE {last.dst}

\* C29: on the local and webdav backends a create, copy to p, move to p,
\* stream-in or remove on p leaves read(q) and stat(q) as they were for every
\* other path q the caller may name, q = p + META_PREFIX and
\* p = q + META_PREFIX included.
C29_OtherPathsUntouched ==
    (last.op # "none" /\ backend \in {"local", "webdav"})
        => \A q \in FramePaths \ PathsOfCall :
            /\ ReadNow(q) = ReadBefore(q)
            /\ StatNow(q) = StatBefore(q)

---------------------------------------------------------------------------
(* Claims about what ClearDir removes.                                     *)

\* C31: S3 ClearDir(p) deletes only the objects inside the directory p, the
\* keys p + "/" + rest, and leaves every other object as it was, an object
\* whose key only starts with the characters of p included.
C31_ClearDirStaysInside ==
    (/\ dirCall.op = "ClearDir"
     /\ dirCall.ctx # "done"
     /\ backend = "s3")
        => \A k \in Keys :
            ~Inside(dirCall.path, k) => tree[k] = dirCall.pre[k]

---------------------------------------------------------------------------
(* Claims about a remove that fails.                                       *)

\* C32: when RemoveFile(p) of the local or the remote-protocol backend
\* returns an error because the primary object p is absent, the stored state
\* is as it was before the call: a file at p + ".meta" is still there.
C32_FailedRemoveChangesNothing ==
    (/\ last.op = "RemoveFile"
     /\ last.ctx # "done"
     /\ backend \in {"local", "webdav"}
     /\ ~last.pre.files[last.path].exists
     /\ last.err # "nil")
        => /\ files = last.pre.files
           /\ last.pre.files[META_PREFIX(last.path)].exists
                => files[META_PREFIX(last.path)].exists

---------------------------------------------------------------------------
(* Claims about the buffer of a local range read.                          *)

\* C33: GetFilePartially of the local backend never makes a buffer of
\* negative length: for an existing object of size S, any offset >= 0
\* (beyond S included) and any length (negative included, where the length
\* becomes S - offset), the call returns bytes or an error and does not
\* fail at run time.
C33_NoNegativeBuffer ==
    (/\ last.op = "GetFilePartially"
     /\ last.ctx # "done"
     /\ backend = "local"
     /\ files[last.path].exists)
        => last.out.err # "panic: makeslice: len out of range"
=======================================================================
